---- MODULE Spec2Model ----
(***************************************************************************)
(* Model of kobo-img-fs-updater: the attachment matcher (findAttachment),  *)
(* the action map builder (buildActionMap), the action executor            *)
(* (updateImages) and the image cleaner (ImageCleaner) it starts.          *)
(*                                                                         *)
(* Strings are sequences of tokens, so that suffix matching, prefixes and  *)
(* name building are computed and not assumed.                             *)
(***************************************************************************)
EXTENDS Integers, Sequences, FiniteSets, TLC

VARIABLES
  fa,                 \* findAttachment call: arguments, result, position
  pc,                 \* position of the process in its steps
  run,                \* 1 for the first run of the program, 2 for a re-run
  deleteImages,       \* _configs.deleteImages
  submissions,        \* asset.submissions, the input of buildActionMap
  map,                \* asset.map, the action map built by buildActionMap
  mapCounters,        \* asset.mapCounters
  imgDir,             \* images/{assetId}/{assetName}/ : name -> file
  cleanedDir,         \* images_deleted/{assetId}/{assetName}/ : name -> file
  deletedDir,         \* images_deleted/ : name -> file
  attachmentsMap,     \* .attachments_map/{assetId}/{recordId}/{field}.json
  m, j,               \* loop indexes of updateImages (1-based)
  imageNamesToKeep,   \* updateImages: names claimed by keep entries
  imageNamesToDelete, \* updateImages: names claimed by delete entries
  counters,           \* updateImages: downloads, upToDate, deletes, nones, ...
  results,            \* updateImages: the _result entries, in processing order
  saveImageCalls,     \* the calls of saveImage in order: name and result
  imagesInfo,         \* data/images_info.csv: header and rows
  imc,                \* the ImageCleaner object
  prev,               \* the report of the run before this one, if any
  si,                 \* saveImage call on its own: attempts, result, position
  proc,               \* start(): mode, steps, step reached, exit status
  icCall,             \* ImageCleaner used on its own: the last call and its outcome
  cfg,                \* getConfigs call: the configuration sources and the result
  ws                  \* saveImage step by step: requests, streams and the timer

vars == << fa, pc, run, deleteImages, submissions, map, mapCounters, imgDir,
           cleanedDir, deletedDir, attachmentsMap, m, j, imageNamesToKeep,
           imageNamesToDelete, counters, results, saveImageCalls, imagesInfo,
           imc, prev, si, proc,
               icCall, cfg, ws >>

(***************************************************************************)
(* Bounds                                                                  *)
(***************************************************************************)
\* the longest _attachments list given to findAttachment on its own
MaxAttachments == 2
\* _configs.maxDownloadRetries of the modelled runs
MaxDownloadRetries == 2
\* _configs.maxRequestRetries of the modelled runs
MaxRequestRetries == 2
\* the longest sequence of calls made on an ImageCleaner used on its own
MaxCleanerCalls == 5

\* options.downloadTimeout, in ticks of the clock
DownloadTimeout == 2

Null == [isNull |-> TRUE]

Max(S) == CHOOSE x \in S : \A y \in S : y <= x

SeqsUpTo(S, n) == UNION { [1..k -> S] : k \in 0..n }


(***************************************************************************)
(* JavaScript string helpers                                               *)
(***************************************************************************)
\* String.prototype.lastIndexOf, 0-based, -1 when there is no occurrence
lastIndexOf(s, t) ==
  LET idx == { i \in 0..(Len(s) - Len(t)) : SubSeq(s, i + 1, i + Len(t)) = t }
  IN  IF idx = {} THEN -1 ELSE Max(idx)

\* /^image/.test(mimetype)
isImageMimetype(mimetype) == Len(mimetype) >= 1 /\ mimetype[1] = "image"

(***************************************************************************)
(* utils.js: findAttachment                                                *)
(***************************************************************************)
\* the mutant keeps the first match whatever the ids
RECURSIVE findAttachmentLoop_first(_, _, _, _)
findAttachmentLoop_first(name, attachments, i, result) ==
  IF i > Len(attachments) THEN result
  ELSE LET attachment == attachments[i]
           liofn == lastIndexOf(attachment.filename, name)
       IN  IF ~isImageMimetype(attachment.mimetype)
             THEN findAttachmentLoop_first(name, attachments, i + 1, result)
           ELSE IF liofn = -1 \/ liofn # Len(attachment.filename) - Len(name)
             THEN findAttachmentLoop_first(name, attachments, i + 1, result)
           ELSE IF result = Null
             THEN findAttachmentLoop_first(name, attachments, i + 1, attachment)
           ELSE findAttachmentLoop_first(name, attachments, i + 1, result)

RECURSIVE findAttachmentLoop(_, _, _, _)
findAttachmentLoop(name, attachments, i, result) ==
  IF i > Len(attachments) THEN result
  ELSE LET attachment == attachments[i]
           liofn == lastIndexOf(attachment.filename, name)
       IN  IF ~isImageMimetype(attachment.mimetype)
             THEN findAttachmentLoop(name, attachments, i + 1, result)
           ELSE IF liofn = -1 \/ liofn # Len(attachment.filename) - Len(name)
             THEN findAttachmentLoop(name, attachments, i + 1, result)
           ELSE IF result = Null
             THEN findAttachmentLoop(name, attachments, i + 1, attachment)
           ELSE IF attachment.id > result.id
             THEN findAttachmentLoop(name, attachments, i + 1, attachment)
           ELSE findAttachmentLoop(name, attachments, i + 1, result)

findAttachment(name, attachments, id) ==
  IF Len(attachments) = 0 THEN Null
  ELSE findAttachmentLoop(name, attachments, 1, Null)

(***************************************************************************)
(* checks.js: the values whose JavaScript type decides a check are tagged  *)
(***************************************************************************)
Undefined == [t |-> "undefined"]
Str(s) == [t |-> "string", v |-> s]
Num(n) == [t |-> "number", v |-> n]
Arr(a) == [t |-> "array", v |-> a]
Bool(b) == [t |-> "boolean", v |-> b]

\* !arg : undefined, the empty string, 0 and false are falsy; an array is
\* truthy
falsy(arg) ==
  \/ arg.t = "undefined"
  \/ arg.t = "string" /\ arg.v = << >>
  \/ arg.t = "number" /\ arg.v = 0
  \/ arg.t = "boolean" /\ ~arg.v

\* typeof [] is 'object'; Array.isArray for 'array'
isOfType(arg, type) ==
  IF type = "object" THEN arg.t \in {"object", "array"} ELSE arg.t = type

\* check(arg, 'mustExists', type) does not throw
checkMustExists(arg, type) == ~falsy(arg) /\ isOfType(arg, type)

\* check(arg, 'defined', type) does not throw
checkDefined(arg, type) == arg.t # "undefined" /\ isOfType(arg, type)

\* confirm(arg, 'exists') && isOfType(arg, type)
confirmExists(arg, type) == ~falsy(arg) /\ isOfType(arg, type)

\* confirm(arg, 'defined') && isOfType(arg, type)
confirmDefined(arg, type) == arg.t # "undefined" /\ isOfType(arg, type)

(***************************************************************************)
(* The asset of the model: one form with two image fields and one record   *)
(***************************************************************************)
\* asset.imgs: the $autoname of each image field, in schema order
Imgs == << "A", "B" >>

\* the _id of the submissions of the asset, in order
SubmissionIds == << 1721 >>

\* the _id of the submissions of an asset with two records
SubmissionIds2 == << 1721, 1722 >>

Photo == << "photo", ".jpg" >>
Tree == << "tree", ".jpg" >>

\* the image names a field value can hold
Values == { Photo, Tree }

Attachment(id) ==
  [ mimetype |-> << "image", "/jpeg" >>,
    filename |-> << "u/attachments/" >> \o Photo,
    id |-> id ]

\* the _attachments lists of a record: none, or the name photo.jpg uploaded
\* twice (the later upload has the greater id)
AttachmentLists ==
  { << >>, << Attachment(2395), Attachment(2394) >> }

AttachmentIds == { 2394, 2395 }

\* subm["@images_map"][field]: zero or one {key: value} element
ImagesMapElements ==
  { << >> } \cup { << [key |-> k, value |-> v] >> : k \in {"k"}, v \in Values }

Submissions ==
  { [ i \in 1..Len(SubmissionIds) |->
        [ _id |-> SubmissionIds[i], _attachments |-> a[i], images_map |-> im[i] ] ] :
      a \in [1..Len(SubmissionIds) -> AttachmentLists],
      im \in [1..Len(SubmissionIds) -> [1..Len(Imgs) -> ImagesMapElements]] }

(***************************************************************************)
(* globals.js: buildActionMap                                              *)
(***************************************************************************)
\* the mutant classifies a value without attachment as keep
actionOf_noNone(value, attachment) ==
  IF ~falsy(value) THEN "keep" ELSE "delete"

\* lines 665-700: the action of a field from its value and its attachment
actionOf(value, attachment) ==
  IF ~falsy(value)
    THEN IF attachment = Null THEN "none" ELSE "keep"
    ELSE "delete"

\* lines 615-705: the action map entry of one image field of one submission
buildEntry(subm, jj) ==
  LET imgField_map_a == subm.images_map[jj]
      value == IF Len(imgField_map_a) = 1
                 THEN Str(imgField_map_a[1].value) ELSE Undefined
      subm_mapped_key == IF Len(imgField_map_a) = 1
                           THEN Str(<< imgField_map_a[1].key >>) ELSE Undefined
      attachment == IF ~falsy(value)
                      THEN findAttachment(value.v, subm._attachments, subm._id)
                      ELSE Null
      action == actionOf(value, attachment)
  IN  [ key |-> Imgs[jj], value |-> value, attachment |-> attachment,
        action |-> action, subm_mapped_key |-> subm_mapped_key,
        warning |-> action = "none" ]

\* lines 588-709: asset.map, one _map per submission
buildMap(subms) ==
  [ s \in 1..Len(subms) |->
      [ _id |-> subms[s]._id,
        entries |-> [ jj \in 1..Len(Imgs) |-> buildEntry(subms[s], jj) ] ] ]

\* the mutant counts the records that have an entry of the action
countActions_records(amap, action) ==
  Cardinality({ s \in 1..Len(amap) :
                  \E jj \in DOMAIN amap[s].entries : amap[s].entries[jj].action = action })

\* keeps++, deletes++, nones++ (lines 675, 690, 698): one for each entry of
\* the action
countActions(amap, action) ==
  Cardinality({ << s, jj >> \in (1..Len(amap)) \X (1..Len(Imgs)) :
                  amap[s].entries[jj].action = action })

\* line 712: mapCounters; _totalActions is incremented once for each entry
\* (line 701) and warnings is the length of the list of the warnings pushed
\* (line 679; line 713 removes the key from the object when it is 0)
buildMapCounters(amap) ==
  [ keeps |-> countActions(amap, "keep"),
    deletes |-> countActions(amap, "delete"),
    nones |-> countActions(amap, "none"),
    totalActions |-> Cardinality({ << s, jj >> \in (1..Len(amap)) \X (1..Len(Imgs)) :
                                     jj \in DOMAIN amap[s].entries }),
    warnings |-> Cardinality({ << s, jj >> \in (1..Len(amap)) \X (1..Len(Imgs)) :
                                 amap[s].entries[jj].warning }) ]

\* the mutant accepts any number of elements
buildThrows_never(subms) == FALSE

\* line 620: a field whose @images_map holds more than one element makes
\* buildActionMap throw
buildThrows(subms) ==
  \E s \in 1..Len(subms) : \E jj \in 1..Len(Imgs) : Len(subms[s].images_map[jj]) > 1

\* the assets given to buildActionMap, each by its submissions: no
\* submission, or one whose two fields hold no, one or two elements
BuildAssets ==
  { << >> } \cup
  { << [ _id |-> 1721, _attachments |-> << Attachment(2395), Attachment(2394) >>,
         images_map |-> << a, b >> ] >> :
      a \in { << >>, << [key |-> "k", value |-> Photo] >>,
              << [key |-> "k", value |-> Photo], [key |-> "g/k", value |-> Tree] >> },
      b \in { << >>, << [key |-> "k", value |-> Tree] >>,
              << [key |-> "k", value |-> Photo], [key |-> "g/k", value |-> Tree] >> } }

\* buildActionMap(stepId, input), lines 526-751: the assets without
\* submissions are skipped (lines 563-569); the totals are incremented entry
\* by entry together with the counters of the asset
buildActionMap(assets) ==
  LET kept == SelectSeq(assets, LAMBDA subms : subms # << >>)
      all == { t \in (1..Len(kept)) \X (1..Len(SubmissionIds2)) \X (1..Len(Imgs)) :
                 t[2] \in DOMAIN kept[t[1]] }
      e(t) == buildMap(kept[t[1]])[t[2]].entries[t[3]]
      total(action) == Cardinality({ t \in all : e(t).action = action })
  IN  IF \E a \in 1..Len(assets) : buildThrows(assets[a])
        THEN [ assets |-> assets, threw |-> TRUE, results |-> << >>,
               totals |-> << >> ]
        ELSE [ assets |-> assets, threw |-> FALSE,
               results |-> [ a \in 1..Len(kept) |->
                               [ map |-> buildMap(kept[a]),
                                 mapCounters |-> buildMapCounters(buildMap(kept[a])) ] ],
               totals |-> [ keeps |-> total("keep"), deletes |-> total("delete"),
                            nones |-> total("none"),
                            totalActions |-> Cardinality(all),
                            warnings |-> Cardinality({ t \in all : e(t).warning }) ] ]

(***************************************************************************)
(* Files: utils.js fileExists, pathExists, buildImageName, hashes          *)
(***************************************************************************)
Absent == [kind |-> "absent"]
File(data) == [kind |-> "file", data |-> data]
Dir == [kind |-> "dir"]

\* the bytes a local image can hold before the run
LocalData == { 1, 2 }

\* the bytes whose hash an attachment map found on disk can hold
StoredData == { 1 }

\* the bytes the server sends for an attachment
remoteData(attachmentId) == IF attachmentId = 2395 THEN 1 ELSE 2

\* the bytes of a file whose download did not complete
PartialData == 0

fileExists(dir, name) == dir[name].kind = "file"

pathExists(dir, name) == dir[name].kind # "absent"

\* prefix + '_' + name ; also emap["_id"] + '_' + e_value.value
buildImageName(prefix, name) == << prefix, "_" >> \o name

FileNames ==
  { buildImageName(ToString(SubmissionIds[i]), v) :
      i \in 1..Len(SubmissionIds), v \in Values }

\* the image names of an asset with two records
FileNames2 ==
  { buildImageName(ToString(SubmissionIds2[i]), v) :
      i \in 1..Len(SubmissionIds2), v \in Values }

\* a file left by a record that is no longer among the submissions
StaleNames == { buildImageName("1700", Photo) }

\* the order in which readdir lists the names
FileNameSeq ==
  CHOOSE q \in [1..Cardinality(FileNames \cup FileNames2 \cup StaleNames) ->
                  FileNames \cup FileNames2 \cup StaleNames] :
    \A a, b \in DOMAIN q : a # b => q[a] # q[b]

\* sjcl.hash.sha256.hash(data): a bit array, one word per modelled file content
getFileHash(file) == Arr(<< file.data >>)

\* the mutant accepts any stored hash
isValidFileHash_any(file, hash) == "true"

\* "throw" when check(hash, 'mustExists', 'array') fails, else the comparison
isValidFileHash(file, hash) ==
  IF ~checkMustExists(hash, "array") THEN "throw"
  ELSE LET _hash == getFileHash(file)
       IN  IF Len(_hash.v) # Len(hash.v) THEN "false"
           ELSE IF \E i \in 1..Len(hash.v) : _hash.v[i] # hash.v[i] THEN "false"
           ELSE "true"

(***************************************************************************)
(* Attachment maps (state records) and utils.js isValidAttachmentMap       *)
(***************************************************************************)
\* no file at attachments_map/{assetId}/{submissionId}/{field}.json
NoAttachmentMap == [kind |-> "absent"]

\* a file that JSON.parse rejects
UnparsableAttachmentMap == [kind |-> "unparsable"]

\* getImgInfo plus the fields updateImages adds (lines 1115-1128)
ImgInfo(recordId, name, hash) ==
  [ t |-> "object", hash |-> hash, width |-> Num(8), height |-> Num(8),
    dimensions |-> Str(<< "width: 8 pixels, height: 8 pixels" >>),
    assetUid |-> Str(<< "uid" >>), assetName |-> Str(<< "asset" >>),
    recordId |-> Num(recordId), name |-> Str(name),
    type |-> Str(<< "image", "/jpeg" >>), size |-> Num(8),
    sizeMB |-> Str(<< "0MB" >>) ]

\* the object updateImages writes (lines 1036-1040, 1135-1136); it has no
\* top-level hash key, so reading .hash gives undefined
AttachmentMap(recordId, originalName, attachmentId, hash) ==
  LET name == buildImageName(ToString(recordId), originalName)
  IN  [ kind |-> "object", imageName |-> Str(name),
        originalName |-> Str(originalName), attachmentId |-> Num(attachmentId),
        saveTimestamp |-> Str(<< "2020-11-17-19-41-36" >>),
        imgInfo |-> ImgInfo(recordId, name, hash), hash |-> Undefined ]

\* a parsable object that lacks imgInfo
PartialAttachmentMap(recordId, originalName, attachmentId) ==
  [ AttachmentMap(recordId, originalName, attachmentId, Undefined)
      EXCEPT !.imgInfo = Undefined ]

isValidAttachmentMap(o) ==
  /\ confirmExists(o.imageName, "string")
  /\ confirmExists(o.originalName, "string")
  /\ confirmDefined(o.attachmentId, "number")
  /\ confirmExists(o.saveTimestamp, "string")
  /\ confirmExists(o.imgInfo, "object")
  /\ confirmExists(o.imgInfo.assetUid, "string")
  /\ confirmExists(o.imgInfo.assetName, "string")
  /\ confirmDefined(o.imgInfo.recordId, "number")
  /\ confirmExists(o.imgInfo.name, "string")
  /\ confirmDefined(o.imgInfo.size, "number")
  /\ confirmExists(o.imgInfo.sizeMB, "string")
  /\ confirmExists(o.imgInfo.type, "string")
  /\ confirmExists(o.imgInfo.dimensions, "string")
  /\ confirmDefined(o.imgInfo.width, "number")
  /\ confirmDefined(o.imgInfo.height, "number")
  /\ confirmExists(o.imgInfo.hash, "array")

\* the attachment maps a run can find on disk
InitAttachmentMaps(recordId) ==
  { NoAttachmentMap, UnparsableAttachmentMap }
  \cup { PartialAttachmentMap(recordId, v, a) : v \in {Photo}, a \in {2395} }
  \cup { AttachmentMap(recordId, v, a, getFileHash(File(d))) :
           v \in Values, a \in AttachmentIds, d \in StoredData }

(***************************************************************************)
(* image-cleaner.js: ImageCleaner                                          *)
(***************************************************************************)
includes(list, x) == \E i \in 1..Len(list) : list[i] = x

RECURSIVE flatEntries(_)
\* the entries of a map in the order of the two nested loops
flatEntries(amap) ==
  IF amap = << >> THEN << >>
  ELSE [ jj \in 1..Len(Head(amap).entries) |->
           [ _id |-> Head(amap)._id, e |-> Head(amap).entries[jj] ] ]
       \o flatEntries(Tail(amap))

\* lines 222-257: the names pushed for one action, entries without value skipped
namesOf(amap, action) ==
  LET Named(x) == ~falsy(x.e.value) /\ x.e.action = action
      sel == SelectSeq(flatEntries(amap), Named)
  IN  [ i \in 1..Len(sel) |-> buildImageName(ToString(sel[i]._id), sel[i].e.value.v) ]

\* new ImageCleaner(): every setter called with undefined
newImageCleaner ==
  [ map |-> << >>, path |-> FALSE, cleanedPath |-> FALSE, deleteImages |-> FALSE,
    runLogPath |-> FALSE,
    keeps |-> << >>, deletes |-> << >>, nones |-> << >>,
    isRunning |-> FALSE, wasRan |-> FALSE,
    totalActions |-> 0, totalActionsExecuted |-> 0,
    cleaned |-> << >>, errors |-> << >> ]

resetCounters(c) ==
  [ c EXCEPT !.totalActions = 0, !.totalActionsExecuted = 0,
             !.cleaned = << >>, !.errors = << >> ]

\* the mutant does not push the names of the keep entries
setMap_noKeeps(c, value) ==
  [ resetCounters(c) EXCEPT !.map = value, !.wasRan = FALSE ]

\* set map(value), lines 172-258 (the cleaner is not running)
setMap(c, value) ==
  IF Len(value) = 0
    THEN [ resetCounters(c) EXCEPT !.map = << >>, !.wasRan = FALSE,
             !.keeps = << >>, !.deletes = << >>, !.nones = << >> ]
    ELSE [ resetCounters(c) EXCEPT !.map = value, !.wasRan = FALSE,
             !.keeps = c.keeps \o namesOf(value, "keep"),
             !.deletes = c.deletes \o namesOf(value, "delete"),
             !.nones = c.nones \o namesOf(value, "none") ]

\* set path, set cleanedPath, set deleteImages (the cleaner is not running)
setPaths(c, del) ==
  [ resetCounters(c) EXCEPT !.path = TRUE, !.cleanedPath = TRUE,
      !.deleteImages = del, !.wasRan = FALSE ]

\* the mutant lets every setter through
setterGuard_never(c) == FALSE

\* lines 100, 124, 151, 177: if(this.#isRunning) throw new Error("ImageCleaner
\* is running: cannot be alterated")
setterGuard(c) == c.isRunning

\* set path(value), lines 120-144, for a value that passed the tests: '' or
\* an existing directory
setPath(c, value) ==
  [ resetCounters(c) EXCEPT !.path = (value = "dir"), !.wasRan = FALSE ]

\* set cleanedPath(value), lines 147-170: the directory is made if missing
setCleanedPath(c, value) ==
  [ resetCounters(c) EXCEPT !.cleanedPath = (value # ""), !.wasRan = FALSE ]

\* set deleteImages(value), lines 95-106
setDeleteImages(c, value) ==
  [ resetCounters(c) EXCEPT !.deleteImages = value, !.wasRan = FALSE ]

\* set runLogPath(value), lines 108-113
setRunLogPath(c, value) == [ c EXCEPT !.runLogPath = (value # "") ]

\* lines 296-324: deletePath on one file; it throws for the files of failed
cleanDelete(st, file, failed) ==
  IF file \in failed
    THEN [ st EXCEPT !.cleaned = Append(@, [targetFile |-> file, status |-> "error",
                                            detail |-> "error"]),
                     !.executed = @ + 1 ]
    ELSE [ st EXCEPT !.img[file] = Absent,
                     !.cleaned = Append(@, [targetFile |-> file, status |-> "ok",
                                            detail |-> "file deleted"]),
                     !.executed = @ + 1 ]

\* lines 325-353 and 360-388: renameIfExists takes the first free name (the
\* file, then file_1, file_2, ...) and mvFile moves the file there
cleanMove(st, file, failed) ==
  IF file \in failed
    THEN [ st EXCEPT !.cleaned = Append(@, [targetFile |-> file, status |-> "error",
                                            detail |-> "error"]),
                     !.executed = @ + 1 ]
    ELSE [ st EXCEPT !.img[file] = Absent,
                     !.dst[file] = Append(@, st.img[file].data),
                     !.cleaned = Append(@, [targetFile |-> file, status |-> "ok",
                                            detail |-> "file moved"]),
                     !.executed = @ + 1 ]

\* the mutant only spares the files of the delete set
RECURSIVE sweep_onlyDeletes(_, _, _, _, _)
sweep_onlyDeletes(c, files, i, st, failed) ==
  IF i > Len(files) THEN st
  ELSE IF ~includes(c.deletes, files[i])
    THEN IF c.deleteImages
           THEN sweep_onlyDeletes(c, files, i + 1, cleanDelete(st, files[i], failed), failed)
           ELSE sweep_onlyDeletes(c, files, i + 1, cleanMove(st, files[i], failed), failed)
  ELSE sweep_onlyDeletes(c, files, i + 1, st, failed)

RECURSIVE sweep(_, _, _, _, _)
\* lines 290-390: the loop over the files listed at the start of run()
sweep(c, files, i, st, failed) ==
  IF i > Len(files) THEN st
  ELSE LET file == files[i]
       IN  IF ~includes(c.keeps, file) /\ ~includes(c.deletes, file)
             THEN IF c.deleteImages
                    THEN sweep(c, files, i + 1, cleanDelete(st, file, failed), failed)
                    ELSE sweep(c, files, i + 1, cleanMove(st, file, failed), failed)
           ELSE IF includes(c.nones, file)
             THEN sweep(c, files, i + 1, cleanMove(st, file, failed), failed)
           ELSE sweep(c, files, i + 1, st, failed)

\* the mutant lists no file
getDirEntries_none(dir) == << >>

\* getDirEntries(path, {filesOnly: true})
getDirEntries(dir) ==
  LET IsFile(name) == name \in DOMAIN dir /\ fileExists(dir, name)
  IN  SelectSeq(FileNameSeq, IsFile)

\* run(), lines 263-405: it has no await, so it runs to its end when called
runCleaner(c, dir, dst, failed) ==
  LET files == getDirEntries(dir)
      total == IF Len(files) - (Len(c.keeps) + Len(c.deletes)) > 0
                 THEN Len(files) - (Len(c.keeps) + Len(c.deletes)) ELSE 0
      st == sweep(c, files, 1,
                  [img |-> dir, dst |-> dst, cleaned |-> << >>, executed |-> 0],
                  failed)
  IN  [ imc |-> [ c EXCEPT !.isRunning = FALSE, !.wasRan = TRUE,
                    !.totalActions = total,
                    !.totalActionsExecuted = st.executed,
                    !.cleaned = st.cleaned, !.errors = << >> ],
        img |-> st.img, dst |-> st.dst ]

(***************************************************************************)
(* kobo-imgs-fs.js: saveImage                                              *)
(***************************************************************************)
\* what one download-and-write attempt can do: "completed" writes the whole
\* file; "notStarted" fails before writeStream opens the file (download throws,
\* no content-length); "incomplete" fails after the file was opened for writing
AttemptOutcomes == { "completed", "notStarted", "incomplete" }

\* what download() and writeStream() do in one attempt: download throws or
\* returns a stream with a content-length (missing, 0 or 2); writeStream ends
\* by the writer's finish, by the timeout or by a stream error, bytesRead
\* bytes having been read
RawAttempts ==
  { [ download |-> "throws", contentLength |-> Undefined, end |-> "none", bytesRead |-> 0 ] }
  \cup { [ download |-> "ok", contentLength |-> cl, end |-> "none", bytesRead |-> 0 ] :
           cl \in { Undefined, Num(0) } }
  \cup { [ download |-> "ok", contentLength |-> Num(2), end |-> e, bytesRead |-> b ] :
           e \in { "finish", "timeout", "error" }, b \in { 1, 2 } }

\* the mutant accepts every stream that the writer finished
attemptOutcome_anyFinish(a) ==
  IF a.download # "ok" \/ falsy(a.contentLength) THEN "notStarted"
  ELSE IF a.end = "finish" THEN "completed"
  ELSE "incomplete"

\* the body of the try of saveImage, lines 122-160, and writeStream, lines
\* 17-95: the throw before writeStream, the rejected promise, and the test
\* bytesRead !== contentLength
attemptOutcome(a) ==
  IF a.download # "ok" \/ falsy(a.contentLength) THEN "notStarted"
  ELSE IF a.end = "finish" /\ a.bytesRead = a.contentLength.v THEN "completed"
  ELSE "incomplete"

RECURSIVE saveImageLoop(_, _, _, _)
\* lines 120-172: result is TRUE once an attempt completed; tries counts the
\* attempts made
saveImageLoop(attempts, retries, file, data) ==
  IF retries > MaxDownloadRetries
    THEN [ result |-> FALSE, file |-> file, tries |-> retries - 1 ]
  ELSE IF attempts[retries] = "completed"
    THEN [ result |-> TRUE, file |-> File(data), tries |-> retries ]
  ELSE IF attempts[retries] = "incomplete"
    THEN saveImageLoop(attempts, retries + 1, File(PartialData), data)
  ELSE saveImageLoop(attempts, retries + 1, file, data)

saveImage(attempts, file, data) == saveImageLoop(attempts, 1, file, data)

(***************************************************************************)
(* globals.js: updateImages, the executor                                  *)
(***************************************************************************)
emap == map[m]
entry == map[m].entries[j]
current_attachment_map_o == attachmentsMap[<< map[m]._id, map[m].entries[j].key >>]

\* lines 940-953
e_has_attachment_map ==
  /\ current_attachment_map_o.kind = "object"
  /\ isValidAttachmentMap(current_attachment_map_o)

attachmentMapWarning ==
  /\ current_attachment_map_o.kind = "object"
  /\ ~isValidAttachmentMap(current_attachment_map_o)

img_new_name == buildImageName(ToString(map[m]._id), map[m].entries[j].value.v)

\* the mutant does not compare the attachment ids
imgIsUpToDate_noId(cur, name, attachmentId, file) ==
  IF cur.imageName.v # name THEN "false"
  ELSE isValidFileHash(file, cur.imgInfo.hash)

\* lines 1075-1077, for an existing image with a valid attachment map
imgIsUpToDate(cur, name, attachmentId, file) ==
  IF cur.imageName.v # name THEN "false"
  ELSE IF cur.attachmentId.v # attachmentId THEN "false"
  ELSE isValidFileHash(file, cur.imgInfo.hash)

\* Utils.getCsvString(str) does not throw
getCsvStringOk(str) == checkMustExists(str, "string")

\* line 1087: the template of the row of an up to date image is evaluated
upToDateRowOk(imgInfo) ==
  /\ getCsvStringOk(imgInfo.assetName) /\ getCsvStringOk(imgInfo.name)
  /\ getCsvStringOk(imgInfo.sizeMB) /\ getCsvStringOk(imgInfo.type)
  /\ getCsvStringOk(imgInfo.dimensions) /\ getCsvStringOk(imgInfo.hash)

\* lines 1117-1120 and 1132: the checks on getImgInfo's result and the row
downloadedRowOk(imgInfo) ==
  /\ checkMustExists(imgInfo.dimensions, "string")
  /\ checkDefined(imgInfo.width, "number")
  /\ checkDefined(imgInfo.height, "number")
  /\ checkMustExists(imgInfo.hash, "string")
  /\ getCsvStringOk(imgInfo.assetUid) /\ upToDateRowOk(imgInfo)

\* the mutant never finds a name in the to-keep list
isDuplicated_never(list, name) == FALSE

\* lines 1025, 1188, 1196: list.includes(name)
isDuplicated(list, name) == includes(list, name)

Result(status, op, detail) ==
  [ _id |-> map[m]._id, key |-> entry.key, action |-> entry.action,
    status |-> status, op |-> op, detail |-> detail ]

\* the mutant leaves the loop after the entry
Advance_stop ==
  /\ j' = j
  /\ m' = m
  /\ pc' = "report"

\* the end of one iteration of the loop over the entries: next field, next
\* submission, or the end of the loop over the asset's map
Advance ==
  /\ j' = IF j < Len(map[m].entries) THEN j + 1 ELSE 1
  /\ m' = IF j < Len(map[m].entries) THEN m ELSE m + 1
  /\ pc' = IF j < Len(map[m].entries) \/ m < Len(map) THEN "update" ELSE "report"

\* the mutant reports the error without counting it
EntryError_uncounted(op, message) ==
  /\ results' = Append(results, Result("error", op, message))
  /\ counters' = [counters EXCEPT
                     !.warnings = @ + (IF attachmentMapWarning THEN 1 ELSE 0)]

\* the catch blocks, lines 1154-1169 and 1293-1308
EntryError(op, message) ==
  /\ results' = Append(results, Result("error", op, message))
  /\ counters' = [counters EXCEPT !.errors = @ + 1,
                     !.warnings = @ + (IF attachmentMapWarning THEN 1 ELSE 0)]

EntryOk(op, detail, counter) ==
  /\ results' = Append(results, Result("ok", op, detail))
  /\ counters' = [counters EXCEPT ![counter] = @ + 1,
                     !.warnings = @ + (IF attachmentMapWarning THEN 1 ELSE 0)]

\* what an entry leaves alone besides the files, the lists and the reports
EntryFrame ==
  UNCHANGED << fa, run, deleteImages, submissions, map, mapCounters,
               cleanedDir, imc, prev, si, proc,
               icCall, cfg, ws >>

\* the mutant removes the attachment map file of a delete entry
deleteAttachmentMapFrame_removes ==
  attachmentsMap' = [attachmentsMap EXCEPT ![<< emap._id, entry.key >>] = NoAttachmentMap]

\* case delete, lines 1175-1309: the attachment map file is read at lines
\* 940-953 and never written or removed
deleteAttachmentMapFrame == UNCHANGED attachmentsMap

\* lines 942-943: parseJSONFile throws outside every try block of the loop,
\* updateImages rejects and run() exits the process with status 1
AbortOnAttachmentMap ==
  /\ pc = "update"
  /\ current_attachment_map_o.kind = "unparsable"
  /\ pc' = "failed"
  /\ counters' = [counters EXCEPT !.status = "failed"]
  /\ UNCHANGED << m, j, results, imgDir, deletedDir, attachmentsMap,
                  imageNamesToKeep, imageNamesToDelete, saveImageCalls,
                  imagesInfo >>
  /\ EntryFrame

\* lines 958-1170: case keep
KeepEntry ==
  /\ pc = "update"
  /\ current_attachment_map_o.kind # "unparsable"
  /\ entry.action = "keep"
  /\ LET cur == current_attachment_map_o
         name == img_new_name
         file == imgDir[name]
         imgExists == fileExists(imgDir, name)
         e_attachment_id == entry.attachment.id
         upToDate == IF imgExists /\ e_has_attachment_map
                       THEN imgIsUpToDate(cur, name, e_attachment_id, file)
                       ELSE "false"
     IN  IF isDuplicated(imageNamesToKeep, name)
           THEN /\ EntryError("saveImage", "image name is duplicated")
                /\ UNCHANGED << imageNamesToKeep, imgDir, attachmentsMap,
                                saveImageCalls, imagesInfo >>
           ELSE
             /\ imageNamesToKeep' = Append(imageNamesToKeep, name)
             /\ IF ~imgExists /\ pathExists(imgDir, name)
                  THEN /\ EntryError("saveImage", "image name exists but is not a regular file")
                       /\ UNCHANGED << imgDir, attachmentsMap, saveImageCalls, imagesInfo >>
                ELSE IF upToDate = "throw"
                  THEN /\ EntryError("saveImage", "expected array in @arg")
                       /\ UNCHANGED << imgDir, attachmentsMap, saveImageCalls, imagesInfo >>
                ELSE IF upToDate = "true"
                  THEN IF upToDateRowOk(cur.imgInfo)
                         THEN /\ EntryOk("saveImage", "image up to date", "upToDate")
                              /\ imagesInfo' = Append(imagesInfo, name)
                              /\ UNCHANGED << imgDir, attachmentsMap, saveImageCalls >>
                         ELSE /\ EntryError("saveImage", "expected string in @arg")
                              /\ UNCHANGED << imgDir, attachmentsMap, saveImageCalls,
                                              imagesInfo >>
                ELSE \E attempts \in [1..MaxDownloadRetries -> AttemptOutcomes] :
                       LET r == saveImage(attempts, file, remoteData(e_attachment_id))
                           imgInfo == ImgInfo(emap._id, name, getFileHash(r.file))
                       IN  /\ saveImageCalls' = Append(saveImageCalls,
                                                     [name |-> name, ok |-> r.result])
                           /\ imgDir' = [imgDir EXCEPT ![name] = r.file]
                           /\ IF ~r.result
                                THEN /\ EntryError("saveImage", "saveImage fails after retries")
                                     /\ UNCHANGED << attachmentsMap, imagesInfo >>
                              ELSE IF ~downloadedRowOk(imgInfo)
                                THEN /\ EntryError("saveImage", "expected string in @arg")
                                     /\ UNCHANGED << attachmentsMap, imagesInfo >>
                              ELSE /\ EntryOk("saveImage", "image downloaded", "downloads")
                                   /\ imagesInfo' = Append(imagesInfo, name)
                                   /\ attachmentsMap' =
                                        [attachmentsMap EXCEPT ![<< emap._id, entry.key >>] =
                                           AttachmentMap(emap._id, entry.value.v,
                                                         e_attachment_id, imgInfo.hash)]
  /\ Advance
  /\ UNCHANGED << deletedDir, imageNamesToDelete >>
  /\ EntryFrame

\* lines 1175-1309: case delete
DeleteEntry ==
  /\ pc = "update"
  /\ current_attachment_map_o.kind # "unparsable"
  /\ entry.action = "delete"
  /\ IF e_has_attachment_map
       THEN
         LET img_name == current_attachment_map_o.imageName.v
             img_hash == current_attachment_map_o.hash
             file == imgDir[img_name]
         IN  IF isDuplicated(imageNamesToKeep, img_name)
               THEN /\ EntryError("deleteImage", "image name is duplicated in to-keep list")
                    /\ UNCHANGED << imageNamesToDelete, imgDir, deletedDir >>
             ELSE IF isDuplicated(imageNamesToDelete, img_name)
               THEN /\ EntryError("deleteImage", "image name is duplicated in to-delete list")
                    /\ UNCHANGED << imageNamesToDelete, imgDir, deletedDir >>
             ELSE
               /\ imageNamesToDelete' = Append(imageNamesToDelete, img_name)
               /\ IF ~fileExists(imgDir, img_name)
                    THEN /\ EntryOk("deleteImage", "image does not exists", "nones")
                         /\ UNCHANGED << imgDir, deletedDir >>
                  ELSE IF isValidFileHash(file, img_hash) = "throw"
                    THEN /\ EntryError("deleteImage", "expected array in @arg")
                         /\ UNCHANGED << imgDir, deletedDir >>
                  ELSE IF isValidFileHash(file, img_hash) = "false"
                    THEN /\ EntryError("deleteImage", "trying to remove an image with a different hash")
                         /\ UNCHANGED << imgDir, deletedDir >>
                  ELSE IF deleteImages
                    THEN /\ imgDir' = [imgDir EXCEPT ![img_name] = Absent]
                         /\ EntryOk("deleteImage", "image deleted", "deletes")
                         /\ UNCHANGED deletedDir
                  ELSE /\ imgDir' = [imgDir EXCEPT ![img_name] = Absent]
                       /\ deletedDir' = [deletedDir EXCEPT ![img_name] = file]
                       /\ EntryOk("deleteImage", "image moved to images_deleted dir", "deletes")
       ELSE /\ EntryOk("deleteImage", "image cannot be deleted in this phase: has no attachment info", "nones")
            /\ UNCHANGED << imageNamesToDelete, imgDir, deletedDir >>
  /\ Advance
  /\ deleteAttachmentMapFrame
  /\ UNCHANGED << imageNamesToKeep, saveImageCalls, imagesInfo >>
  /\ EntryFrame

\* lines 1314-1327: case none
NoneEntry ==
  /\ pc = "update"
  /\ current_attachment_map_o.kind # "unparsable"
  /\ entry.action = "none"
  /\ EntryOk("none", "image field has name but attachment", "nones")
  /\ Advance
  /\ UNCHANGED << imgDir, deletedDir, attachmentsMap, imageNamesToKeep,
                  imageNamesToDelete, saveImageCalls, imagesInfo >>
  /\ EntryFrame

(***************************************************************************)
(* globals.js: the steps of one run and a re-run of the program            *)
(***************************************************************************)
ZeroCounters ==
  [ downloads |-> 0, upToDate |-> 0, deletes |-> 0, nones |-> 0,
    warnings |-> 0, errors |-> 0, status |-> "running" ]

NoMapCounters ==
  [ keeps |-> 0, deletes |-> 0, nones |-> 0, totalActions |-> 0, warnings |-> 0 ]

EntryKeys ==
  { << SubmissionIds[i], Imgs[jj] >> : i \in 1..Len(SubmissionIds), jj \in 1..Len(Imgs) }

\* step buildActionMap, lines 526-751
BuildActionMap ==
  /\ pc = "build"
  /\ map' = buildMap(submissions)
  /\ mapCounters' = buildMapCounters(buildMap(submissions))
  /\ pc' = "start"
  /\ UNCHANGED << fa, run, deleteImages, submissions, imgDir, cleanedDir,
                  deletedDir, attachmentsMap, m, j, imageNamesToKeep,
                  imageNamesToDelete, counters, results, saveImageCalls,
                  imagesInfo, imc, prev, si, proc,
               icCall, cfg, ws >>

\* the mutant adds the data to what the file holds
writeFile_append(file, data) == Append(file, data)

\* Utils.writeFile(path, data), line 839: the file holds the data and nothing
\* else
writeFile(file, data) == << data >>

\* step updateImages up to the loop over the map, lines 758-874: the csv file
\* is rewritten, the cleaner is configured and run() is called; the files of
\* failed are those whose deletePath or mvFile throws
StartAsset ==
  /\ pc = "start"
  /\ \E failed \in SUBSET DOMAIN imgDir :
       LET c == setPaths(setMap(newImageCleaner, map), deleteImages)
           r == runCleaner(c, imgDir, cleanedDir, failed)
       IN  /\ imc' = r.imc
           /\ imgDir' = r.img
           /\ cleanedDir' = r.dst
  /\ imagesInfo' = writeFile(imagesInfo, << "header" >>)
  /\ imageNamesToKeep' = << >>
  /\ imageNamesToDelete' = << >>
  /\ counters' = ZeroCounters
  /\ results' = << >>
  /\ saveImageCalls' = << >>
  /\ m' = 1
  /\ j' = 1
  /\ pc' = "update"
  /\ UNCHANGED << fa, run, deleteImages, submissions, map, mapCounters,
                  deletedDir, attachmentsMap, prev, si, proc,
               icCall, cfg, ws >>

\* the mutant reports the step as ok whatever the counters
stepStatus_ok(totalCleanErrors, totalErrors) == "ok"

\* line 1390 and lines 1398-1399: status = (!totalCleanErrors && !totalErrors);
\* the step returns its results when status holds and throws otherwise
stepStatus(totalCleanErrors, totalErrors) ==
  IF totalCleanErrors = 0 /\ totalErrors = 0 THEN "ok" ELSE "failed"

\* lines 1336-1400: the reports after the loop; the step fails when an entry
\* or a clean operation was counted as an error
FinishAsset ==
  /\ pc = "report"
  /\ ~imc.isRunning
  /\ counters' = [counters EXCEPT !.status =
                     stepStatus(Len(imc.errors), counters.errors)]
  /\ pc' = "done"
  /\ UNCHANGED << fa, run, deleteImages, submissions, map, mapCounters, imgDir,
                  cleanedDir, deletedDir, attachmentsMap, m, j, imageNamesToKeep,
                  imageNamesToDelete, results, saveImageCalls, imagesInfo, imc,
                  prev, si, proc,
               icCall, cfg, ws >>

\* run() and start(), lines 96-139: the status with which the process exits
\* once the last step (updateImages) has returned or thrown; -1 while it runs
exitStatus ==
  IF pc = "failed" THEN 1
  ELSE IF pc = "done" THEN (IF counters.status = "ok" THEN 0 ELSE 1)
  ELSE -1

\* the program is started again on the output of the first run, with the same
\* remote data and configuration
Rerun ==
  /\ pc = "done"
  /\ run = 1
  /\ run' = 2
  /\ pc' = "build"
  /\ map' = << >>
  /\ mapCounters' = NoMapCounters
  /\ m' = 1
  /\ j' = 1
  /\ imageNamesToKeep' = << >>
  /\ imageNamesToDelete' = << >>
  /\ counters' = ZeroCounters
  /\ results' = << >>
  /\ saveImageCalls' = << >>
  /\ imc' = newImageCleaner
  /\ prev' = [ results |-> results, saveImageCalls |-> saveImageCalls,
               cleaned |-> imc.cleaned ]
  /\ UNCHANGED << fa, deleteImages, submissions, imgDir, cleanedDir, deletedDir,
                  attachmentsMap, imagesInfo, si, proc,
               icCall, cfg, ws >>

FaIdle == [ pc |-> "idle" ]

\* saveImage is not called on its own
SiIdle == [ pc |-> "idle" ]

\* the calls of saveImage on its own: any attempts, over a path that holds a
\* file or nothing
SiCalls ==
  [ pc : {"call"}, attempts : [1..MaxDownloadRetries -> RawAttempts],
    file : { Absent, File(1) }, tries : {0} ]

\* no call is made on an ImageCleaner on its own
IcIdle == [ op |-> "idle", threw |-> FALSE, n |-> 0 ]

\* getConfigs is not called
CfgIdle == [ pc |-> "idle" ]

\* saveImage is not followed step by step
WsIdle == [ pc |-> "idle" ]

\* the steps of start() are not followed one by one
ProcIdle == [ pc |-> "idle" ]

\* no run came before the first one
NoReport == [ results |-> << >>, saveImageCalls |-> << >>, cleaned |-> << >> ]

(***************************************************************************)
(* findAttachment on its own: any name against any short attachment list   *)
(***************************************************************************)
\* image names and the ends of attachment file names: one name is a suffix of
\* another, and one occurs in another without ending it
FaNames == { << "a" >>, << "b" >>, << "a", "b" >>, << "b", "a" >> }

FaMimetypes == { << "image", "/jpeg" >>, << "application", "/image" >> }

FaIds == { 1, 2, 3 }

FaAttachments ==
  [ mimetype : FaMimetypes, filename : FaNames, id : FaIds ]

InitFA ==
  /\ fa \in [ pc : {"call"}, name : FaNames,
               attachments : SeqsUpTo(FaAttachments, MaxAttachments),
               id : {1721}, result : {Null} ]
  /\ pc = "idle"
  /\ run = 1
  /\ deleteImages = FALSE
  /\ submissions = << >>
  /\ map = << >>
  /\ mapCounters = NoMapCounters
  /\ imgDir = << >>
  /\ cleanedDir = << >>
  /\ deletedDir = << >>
  /\ attachmentsMap = << >>
  /\ m = 1
  /\ j = 1
  /\ imageNamesToKeep = << >>
  /\ imageNamesToDelete = << >>
  /\ counters = ZeroCounters
  /\ results = << >>
  /\ saveImageCalls = << >>
  /\ imagesInfo = << >>
  /\ imc = newImageCleaner
  /\ prev = NoReport
  /\ si = SiIdle
  /\ proc = ProcIdle
  /\ icCall = IcIdle
  /\ cfg = CfgIdle
  /\ ws = WsIdle

\* one call of findAttachment(name, attachments, id)
FindAttachmentCall ==
  /\ fa.pc = "call"
  /\ fa' = [fa EXCEPT !.pc = "returned",
                      !.result = findAttachment(fa.name, fa.attachments, fa.id)]
  /\ UNCHANGED << pc, run, deleteImages, submissions, map, mapCounters, imgDir,
                  cleanedDir, deletedDir, attachmentsMap, m, j, imageNamesToKeep,
                  imageNamesToDelete, counters, results, saveImageCalls,
                  imagesInfo, imc, prev, si, proc,
               icCall, cfg, ws >>

NextFA == FindAttachmentCall

SpecFA == InitFA /\ [][NextFA]_vars

Init ==
  /\ fa = FaIdle
  /\ pc = "build"
  /\ run = 1
  /\ deleteImages \in BOOLEAN
  /\ submissions \in Submissions
  /\ map = << >>
  /\ mapCounters = NoMapCounters
  /\ imgDir \in [FileNames -> {Absent, Dir} \cup { File(d) : d \in LocalData }]
  /\ cleanedDir = [n \in FileNames |-> << >>]
  /\ deletedDir = [n \in FileNames |-> Absent]
  /\ attachmentsMap \in { f \in [EntryKeys -> UNION { InitAttachmentMaps(SubmissionIds[i]) :
                                                       i \in 1..Len(SubmissionIds) }] :
                             \A k \in EntryKeys : f[k] \in InitAttachmentMaps(k[1]) }
  /\ m = 1
  /\ j = 1
  /\ imageNamesToKeep = << >>
  /\ imageNamesToDelete = << >>
  /\ counters = ZeroCounters
  /\ results = << >>
  /\ saveImageCalls = << >>
  /\ imagesInfo = << >>
  /\ imc = newImageCleaner
  /\ prev = NoReport
  /\ si = SiIdle
  /\ proc = ProcIdle
  /\ icCall = IcIdle
  /\ cfg = CfgIdle
  /\ ws = WsIdle

Next ==
  \/ BuildActionMap
  \/ StartAsset
  \/ AbortOnAttachmentMap
  \/ KeepEntry
  \/ DeleteEntry
  \/ NoneEntry
  \/ FinishAsset

\* one run of the program over any output directory
Spec == Init /\ [][Next]_vars

\* two runs in a row over an output directory that holds regular files, and
\* attachment maps that are complete or cannot be parsed
InitRerun ==
  /\ Init
  /\ \A n \in FileNames : imgDir[n] \in {Absent, File(1)}
  /\ \A k \in EntryKeys :
       \/ attachmentsMap[k].kind \in {"absent", "unparsable"}
       \/ attachmentsMap[k].kind = "object" /\ isValidAttachmentMap(attachmentsMap[k])

NextRerun == Next \/ Rerun

SpecRerun == InitRerun /\ [][NextRerun]_vars

(***************************************************************************)
(* saveImage on its own, next to runs of the executor over an empty        *)
(* image directory                                                         *)
(***************************************************************************)
\* one call of saveImage(i_url, i_path, i_name, options)
SaveImageCall ==
  /\ si.pc = "call"
  /\ LET r == saveImage([i \in 1..MaxDownloadRetries |-> attemptOutcome(si.attempts[i])],
                        si.file, 2)
     IN  si' = [si EXCEPT !.pc = IF r.result THEN "returned" ELSE "thrown",
                          !.file = r.file,
                          !.tries = r.tries]
  /\ UNCHANGED << fa, pc, run, deleteImages, submissions, map, mapCounters, imgDir,
                  cleanedDir, deletedDir, attachmentsMap, m, j, imageNamesToKeep,
                  imageNamesToDelete, counters, results, saveImageCalls,
                  imagesInfo, imc, prev, proc,
               icCall, cfg, ws >>

InitSave ==
  /\ fa = FaIdle
  /\ run = 1
  /\ deleteImages = FALSE
  /\ map = << >>
  /\ mapCounters = NoMapCounters
  /\ imgDir = [n \in FileNames |-> Absent]
  /\ cleanedDir = [n \in FileNames |-> << >>]
  /\ deletedDir = [n \in FileNames |-> Absent]
  /\ m = 1
  /\ j = 1
  /\ imageNamesToKeep = << >>
  /\ imageNamesToDelete = << >>
  /\ counters = ZeroCounters
  /\ results = << >>
  /\ saveImageCalls = << >>
  /\ imagesInfo = << >>
  /\ imc = newImageCleaner
  /\ prev = NoReport
  /\ proc = ProcIdle
  /\ icCall = IcIdle
  /\ cfg = CfgIdle
  /\ ws = WsIdle
  /\ \/ /\ si \in SiCalls
        /\ pc = "idle"
        /\ submissions = << >>
        /\ attachmentsMap = [k \in EntryKeys |-> NoAttachmentMap]
     \/ /\ si = SiIdle
        /\ pc = "build"
        /\ submissions \in Submissions
        /\ attachmentsMap \in
             [EntryKeys -> { NoAttachmentMap, UnparsableAttachmentMap,
                             AttachmentMap(1721, Photo, 2395, getFileHash(File(1))) }]

NextSave == SaveImageCall \/ Next

SpecSave == InitSave /\ [][NextSave]_vars

(***************************************************************************)
(* start() and run(): the steps of the process, one after the other        *)
(***************************************************************************)
\* start(), lines 90-92: the steps of a mode
stepsOf(mode) ==
  IF mode = "filters"
    THEN << "getImageFields", "getAssetsSubmissions", "buildActionMap", "updateImages" >>
  ELSE IF mode = "token"
    THEN << "getAssetsList", "getImageFields", "getAssetsSubmissions", "buildActionMap",
            "updateImages" >>
  ELSE << >>

\* what one axios.get of a request cycle does
Requests == { "response", "error" }

RECURSIVE requestCycle(_, _)
\* the request cycle of getAssets, getAssetInfo and getSubmissions: retries
\* starts at 1 and the cycle ends on a response or past maxRequestRetries
requestCycle(reqs, retries) ==
  IF retries > MaxRequestRetries THEN [ status |-> FALSE, tries |-> retries - 1 ]
  ELSE IF reqs[retries] = "response" THEN [ status |-> TRUE, tries |-> retries ]
  ELSE requestCycle(reqs, retries + 1)

\* the pages the server holds for /assets/?limit=1: each page has the data
\* of at most one asset and every page but the last has a next link
AssetPages ==
  { << << "a" >> >>, << << "b" >> >>, << << "a" >>, << "c" >> >>, << << "b" >>, << "a" >> >> }

\* the assets that options.resFilters selects
KeptAssets == { "a", "c" }

\* the mutant goes on with the next page when a page could not be fetched
RECURSIVE getAssetsLoop_skip(_, _, _, _, _, _)
getAssetsLoop_skip(pages, reqs, keep, p, acc, fetches) ==
  IF p > Len(pages) THEN [ status |-> TRUE, results |-> acc, fetches |-> fetches ]
  ELSE LET r == requestCycle(reqs[p], 1)
       IN  getAssetsLoop_skip(pages, reqs, keep, p + 1,
             IF r.status THEN acc \o SelectSeq(pages[p], LAMBDA a : a \in keep)
             ELSE acc, Append(fetches, r))

RECURSIVE getAssetsLoop(_, _, _, _, _, _)
\* getAssets(options), kobo-api.js lines 47-195: the loop while(next); each
\* page has its own request cycle; when the cycle of a page fails the
\* function returns status false with the results so far; the results of a
\* page are filtered (keep) and appended
getAssetsLoop(pages, reqs, keep, p, acc, fetches) ==
  IF p > Len(pages) THEN [ status |-> TRUE, results |-> acc, fetches |-> fetches ]
  ELSE LET r == requestCycle(reqs[p], 1)
       IN  IF ~r.status
             THEN [ status |-> FALSE, results |-> acc, fetches |-> Append(fetches, r) ]
             ELSE getAssetsLoop(pages, reqs, keep, p + 1,
                                acc \o SelectSeq(pages[p], LAMBDA a : a \in keep),
                                Append(fetches, r))

\* the mutant returns the results of a step whatever its status
stepReturn_always(status, n) == [ threw |-> FALSE, n |-> n ]

\* the end of every step: if(status) return results; else throw new
\* Error('step completed with failed operations')
stepReturn(status, n) ==
  IF status THEN [ threw |-> FALSE, n |-> n ] ELSE [ threw |-> TRUE, n |-> 0 ]

\* the number of i in 1..k for which the function f is true
RECURSIVE countTrue(_, _)
countTrue(f, k) ==
  IF k = 0 THEN 0 ELSE countTrue(f, k - 1) + (IF f[k] THEN 1 ELSE 0)

\* the process before start(): the mode and the number of filters of the
\* configuration (the mode is 'token' when there is no filter, configs.js
\* lines 222-223)
ProcStarts ==
  { [ pc |-> "start", mode |-> IF n = 0 THEN "token" ELSE "filters", filters |-> n,
      steps |-> << >>, i |-> 1, started |-> << >>, returned |-> << >>,
      fetches |-> << >>, failed |-> FALSE, exit |-> -1, build |-> << >>,
      list |-> << >> ] : n \in {0, 1, 2} }

\* run(step, stepId, totalSteps, results), lines 105-139: the step is called
\* with the result of the previous one; a throw or an empty result ends the
\* process with status 1; fetches are the request cycles of the step
runStep(name, out, fetches) ==
  LET stop == out.threw \/ out.n = 0
  IN  proc' = [ proc EXCEPT
                  !.started = Append(@, name),
                  !.returned = IF out.threw THEN @ ELSE Append(@, out.n),
                  !.fetches = @ \o fetches,
                  !.failed = stop,
                  !.pc = IF stop THEN "exited" ELSE "steps",
                  !.exit = IF stop THEN 1 ELSE @,
                  !.i = IF stop THEN @ ELSE @ + 1,
                  !.build = IF name = "buildActionMap" THEN out.build ELSE @,
                  !.list = IF name = "getAssetsList" THEN out.list ELSE @ ]

\* the step that start() runs next
nextStep == IF proc.pc = "steps" /\ proc.i <= Len(proc.steps) THEN proc.steps[proc.i] ELSE ""

\* results[_prevStep]: the number of results of the previous step
input == IF proc.returned = << >> THEN 0 ELSE proc.returned[Len(proc.returned)]

ProcFrame ==
  UNCHANGED << fa, pc, run, deleteImages, submissions, map, mapCounters, imgDir,
               cleanedDir, deletedDir, attachmentsMap, m, j, imageNamesToKeep,
               imageNamesToDelete, counters, results, saveImageCalls,
               imagesInfo, imc, prev, si, icCall, cfg, ws >>

\* start(), lines 81-96
Start ==
  /\ proc.pc = "start"
  /\ proc' = [ proc EXCEPT !.pc = "steps", !.steps = stepsOf(proc.mode) ]
  /\ ProcFrame

\* getAssetsList, lines 145-222: one getAssets over the pages of the server;
\* the step returns the results when the status is true and throws otherwise
StepGetAssetsList ==
  /\ nextStep = "getAssetsList"
  /\ \E pages \in AssetPages, keep \in { KeptAssets } :
       \E reqs \in [1..Len(pages) -> [1..MaxRequestRetries -> Requests]] :
         LET r == getAssetsLoop(pages, reqs, keep, 1, << >>, << >>)
             out == stepReturn(r.status, Len(r.results))
         IN  runStep("getAssetsList",
                     [ threw |-> out.threw, n |-> out.n,
                       list |-> [ pages |-> pages, keep |-> keep,
                                  status |-> r.status, results |-> r.results ] ],
                     r.fetches)
  /\ ProcFrame

\* getImageFields: one getAssetInfo for each asset, in token mode after the
\* assets without submissions were skipped; the loop goes over all the assets
StepGetImageFields ==
  /\ nextStep = "getImageFields"
  /\ LET assets == IF proc.mode = "filters" THEN proc.filters ELSE input
     IN  \E reqs \in [1..assets -> [1..MaxRequestRetries -> Requests]],
            skip \in [1..assets -> IF proc.mode = "token" THEN BOOLEAN ELSE {FALSE}] :
           LET r == [a \in 1..assets |-> requestCycle(reqs[a], 1)]
               fetched == [a \in 1..assets |-> ~skip[a] /\ r[a].status]
               status == \A a \in 1..assets : skip[a] \/ r[a].status
           IN  runStep("getImageFields", stepReturn(status, countTrue(fetched, assets)),
                       [a \in 1..assets |-> IF skip[a] THEN [status |-> TRUE, tries |-> 0]
                                             ELSE r[a]])
  /\ ProcFrame

\* getAssetsSubmissions: one getSubmissions for each asset
StepGetAssetsSubmissions ==
  /\ nextStep = "getAssetsSubmissions"
  /\ \E reqs \in [1..input -> [1..MaxRequestRetries -> Requests]] :
       LET r == [a \in 1..input |-> requestCycle(reqs[a], 1)]
           status == \A a \in 1..input : r[a].status
       IN  runStep("getAssetsSubmissions", stepReturn(status, input),
                   r)
  /\ ProcFrame

\* buildActionMap: one result for each asset that has submissions, or a throw
StepBuildActionMap ==
  /\ nextStep = "buildActionMap"
  /\ \E assets \in [1..input -> BuildAssets] :
       LET r == buildActionMap(assets)
       IN  runStep("buildActionMap",
                   [ threw |-> r.threw, n |-> Len(r.results), build |-> r ], << >>)
  /\ ProcFrame

\* updateImages: one result for each asset, or a throw when an entry or a
\* clean operation ended in error
StepUpdateImages ==
  /\ nextStep = "updateImages"
  /\ \E totalErrors \in {0, 1} :
       runStep("updateImages", stepReturn(stepStatus(0, totalErrors) = "ok", input), << >>)
  /\ ProcFrame

\* start(), lines 98-102: the loop over the steps is over
ProcessCompleted ==
  /\ proc.pc = "steps"
  /\ proc.i > Len(proc.steps)
  /\ proc' = [ proc EXCEPT !.pc = "exited", !.exit = 0 ]
  /\ ProcFrame

InitSteps ==
  /\ fa = FaIdle
  /\ pc = "idle"
  /\ run = 1
  /\ deleteImages = FALSE
  /\ submissions = << >>
  /\ map = << >>
  /\ mapCounters = NoMapCounters
  /\ imgDir = << >>
  /\ cleanedDir = << >>
  /\ deletedDir = << >>
  /\ attachmentsMap = << >>
  /\ m = 1
  /\ j = 1
  /\ imageNamesToKeep = << >>
  /\ imageNamesToDelete = << >>
  /\ counters = ZeroCounters
  /\ results = << >>
  /\ saveImageCalls = << >>
  /\ imagesInfo = << >>
  /\ imc = newImageCleaner
  /\ prev = NoReport
  /\ si = SiIdle
  /\ proc \in ProcStarts
  /\ icCall = IcIdle
  /\ cfg = CfgIdle
  /\ ws = WsIdle

NextSteps ==
  \/ Start
  \/ StepGetAssetsList
  \/ StepGetImageFields
  \/ StepGetAssetsSubmissions
  \/ StepBuildActionMap
  \/ StepUpdateImages
  \/ ProcessCompleted

SpecSteps == InitSteps /\ [][NextSteps]_vars

(***************************************************************************)
(* kobo-imgs-fs.js and kobo-api.js: saveImage, download and writeStream    *)
(* step by step, with a clock for the timer of writeStream                 *)
(***************************************************************************)
\* the mutant leaves the timer as it is when a chunk arrives
rearm_keep(timer) == timer

\* writeStream, lines 70-77: clearTimeout and a new setTimeout of
\* options.downloadTimeout
rearm(timer) == DownloadTimeout

\* saveImage, lines 120-165: the end of one attempt; the loop ends with the
\* result of a completed attempt or after maxDownloadRetries attempts
endAttempt(w, completed) ==
  [ w EXCEPT !.pc = IF completed THEN "returned"
                    ELSE IF w.retries + 1 > MaxDownloadRetries THEN "thrown"
                    ELSE "attempt",
             !.retries = IF completed THEN @ ELSE @ + 1,
             !.reqRetries = 1,
             !.ended = FALSE ]

\* the streams of the attempts made so far, the current one last
closeStream(w) == [ w EXCEPT !.streams[Len(w.streams)] = "closed" ]

\* what the frame of every step of saveImage leaves alone
WsFrame ==
  UNCHANGED << fa, pc, run, deleteImages, submissions, map, mapCounters, imgDir,
               cleanedDir, deletedDir, attachmentsMap, m, j, imageNamesToKeep,
               imageNamesToDelete, counters, results, saveImageCalls,
               imagesInfo, imc, prev, si, proc, icCall, cfg >>

\* download, lines 610-632: axios.get is called
WsRequest ==
  /\ ws.pc = "attempt"
  /\ ws' = [ ws EXCEPT !.pc = "requesting", !.requests = @ + 1, !.end = "none" ]
  /\ WsFrame

\* download, lines 633-661, and saveImage, lines 124-141: the request settles
\* with an error (timeout, cancellation by the connection timer, network) or
\* with a response whose content-length is missing or 2; after
\* maxRequestRetries errors download throws
WsSettle ==
  /\ ws.pc = "requesting"
  /\ \E outcome \in { "error", "noLength", "stream" } :
       LET w == [ ws EXCEPT !.requests = @ - 1 ]
       IN  ws' =
             IF outcome = "error"
               THEN IF w.reqRetries + 1 > MaxRequestRetries
                      THEN endAttempt(w, FALSE)
                      ELSE [ w EXCEPT !.pc = "attempt", !.reqRetries = @ + 1 ]
             ELSE IF outcome = "noLength"
               THEN endAttempt([ w EXCEPT !.streams = Append(@, "open") ], FALSE)
             ELSE [ w EXCEPT !.pc = "streaming", !.streams = Append(@, "open"),
                             !.timer = DownloadTimeout, !.quiet = 0, !.elapsed = 0,
                             !.bytesRead = 0, !.ended = FALSE, !.end = "pending" ]
  /\ WsFrame

\* one tick of the clock while the promise of writeStream is pending and the
\* timer is not due
WsTick ==
  /\ ws.pc = "streaming"
  /\ ws.timer > 0
  /\ ws' = [ ws EXCEPT !.timer = @ - 1, !.quiet = @ + 1, !.elapsed = @ + 1 ]
  /\ WsFrame

\* writeStream, lines 43-48 and 72-77: the timer is due; the read stream is
\* destroyed and the promise rejected
WsTimeout ==
  /\ ws.pc = "streaming"
  /\ ws.timer = 0
  /\ ws' = endAttempt([ closeStream(ws) EXCEPT !.end = "timeout", !.timer = -1,
                                                !.file = "partial" ], FALSE)
  /\ WsFrame

\* writeStream, lines 68-80: a chunk arrives
WsChunk ==
  /\ ws.pc = "streaming"
  /\ ws.timer > 0
  /\ ~ws.ended
  /\ ws.bytesRead < 2
  /\ ws' = [ ws EXCEPT !.timer = rearm(@), !.quiet = 0, !.bytesRead = @ + 1 ]
  /\ WsFrame

\* writeStream, lines 88-90: the read stream is over (all the chunks, or the
\* connection closed early) and the writer is ended
WsClose ==
  /\ ws.pc = "streaming"
  /\ ws.timer > 0
  /\ ~ws.ended
  /\ ws' = [ ws EXCEPT !.ended = TRUE ]
  /\ WsFrame

\* writeStream, lines 51-57, and saveImage, lines 155-160: the writer
\* finishes; the timer is cleared, the read stream destroyed and the promise
\* resolved; the attempt is completed when every byte was read
WsFinish ==
  /\ ws.pc = "streaming"
  /\ ws.timer > 0
  /\ ws.ended
  /\ ws' = endAttempt([ closeStream(ws) EXCEPT
                          !.end = "finish", !.timer = -1,
                          !.file = IF ws.bytesRead = 2 THEN "whole" ELSE "partial" ],
                      ws.bytesRead = 2)
  /\ WsFrame

\* writeStream, lines 58-63 and 82-86: the writer or the read stream emits
\* an error; the read stream is destroyed and the promise rejected
WsError ==
  /\ ws.pc = "streaming"
  /\ ws.timer > 0
  /\ ~ws.ended
  /\ ws' = endAttempt([ closeStream(ws) EXCEPT !.end = "error", !.timer = -1,
                                                !.file = "partial" ], FALSE)
  /\ WsFrame

InitStream ==
  /\ fa = FaIdle
  /\ pc = "idle"
  /\ run = 1
  /\ deleteImages = FALSE
  /\ submissions = << >>
  /\ map = << >>
  /\ mapCounters = NoMapCounters
  /\ imgDir = << >>
  /\ cleanedDir = << >>
  /\ deletedDir = << >>
  /\ attachmentsMap = << >>
  /\ m = 1
  /\ j = 1
  /\ imageNamesToKeep = << >>
  /\ imageNamesToDelete = << >>
  /\ counters = ZeroCounters
  /\ results = << >>
  /\ saveImageCalls = << >>
  /\ imagesInfo = << >>
  /\ imc = newImageCleaner
  /\ prev = NoReport
  /\ si = SiIdle
  /\ proc = ProcIdle
  /\ icCall = IcIdle
  /\ cfg = CfgIdle
  /\ ws = [ pc |-> "attempt", retries |-> 1, reqRetries |-> 1, requests |-> 0,
            streams |-> << >>, timer |-> -1, quiet |-> 0, elapsed |-> 0,
            bytesRead |-> 0, ended |-> FALSE, end |-> "none", file |-> "none" ]

NextStream ==
  \/ WsRequest
  \/ WsSettle
  \/ WsTick
  \/ WsTimeout
  \/ WsChunk
  \/ WsClose
  \/ WsFinish
  \/ WsError

SpecStream == InitStream /\ [][NextStream]_vars

(***************************************************************************)
(* configs.js: getConfigs over the four sources of the configuration       *)
(***************************************************************************)
\* the options that getConfigs resolves over the sources
StringOptions == { "apiServerUrl", "mediaServerUrl", "token", "outputDir" }
NumberOptions == { "maxRequestRetries", "maxDownloadRetries", "requestTimeout",
                   "connectionTimeout", "downloadTimeout" }
Options == StringOptions \cup NumberOptions \cup { "deleteImages" }

\* the sources by precedence: program (command line), process.env, the
\* run-configs file, the globals module
Sources == << "program", "env", "runConfigs", "globals" >>

\* what a source can hold for an option: nothing, a falsy value or a value of
\* its own; process.env holds strings only, and --delete-images is a flag
SourceValues(o, s) ==
  IF o \in StringOptions THEN { Undefined, Str(<< >>), Str(<< s >>) }
  ELSE IF o \in NumberOptions
    THEN IF s = "env" THEN { Undefined, Str(<< >>), Str(<< "2" >>) }
         ELSE { Undefined, Num(0),
                Num(IF s = "program" THEN 1 ELSE IF s = "runConfigs" THEN 3 ELSE 4) }
  ELSE IF s = "program" THEN { Undefined, Bool(TRUE) }
  ELSE IF s = "env"
    THEN { Undefined, Str(<< "true" >>), Str(<< "false" >>), Str(<< "yes" >>) }
  ELSE IF s = "runConfigs" THEN { Undefined, Bool(TRUE), Bool(FALSE) }
  ELSE { Undefined, Bool(TRUE), Bool(FALSE), Str(<< "yes" >>) }

\* a source that holds the two mandatory urls when it is the globals module
\* and nothing else
BaseSource(s) ==
  [ o \in Options |->
      IF s = "globals" /\ o \in { "apiServerUrl", "mediaServerUrl" }
        THEN Str(<< "globals" >>) ELSE Undefined ]

\* the calls of getConfigs: the sources differ from the base in one option;
\* --config-file is given or not, and the file has no filters key, an empty
\* filters list or one filter
CfgCalls ==
  UNION { [ pc : {"call"}, opt : {o},
            program : { [BaseSource("program") EXCEPT ![o] = v] :
                          v \in SourceValues(o, "program") },
            env : { [BaseSource("env") EXCEPT ![o] = v] : v \in SourceValues(o, "env") },
            runConfigs : { [BaseSource("runConfigs") EXCEPT ![o] = v] :
                             v \in SourceValues(o, "runConfigs") },
            globals : { [BaseSource("globals") EXCEPT ![o] = v] :
                          v \in SourceValues(o, "globals") },
            configFile : IF o = "token" THEN BOOLEAN ELSE {TRUE},
            filters : { Undefined, Arr(<< >>), Arr(<< "asset" >>) } ] : o \in Options }

RECURSIVE orChain(_, _)
\* a || b || ... || default : the first operand that is not falsy
orChain(values, default) ==
  IF values = << >> THEN default
  ELSE IF ~falsy(Head(values)) THEN Head(values)
  ELSE orChain(Tail(values), default)

\* lines 177-187: deleteImages; the result is "throw" for a value of
\* KT_DELETE_IMAGES or DELETE_IMAGES that is not a boolean
deleteImagesOf(program, env, runConfigs, globals) ==
  IF confirmDefined(program, program.t) THEN Bool(TRUE)
  ELSE IF confirmDefined(env, env.t)
    THEN IF env = Str(<< "true" >>) THEN Bool(TRUE)
         ELSE IF env = Str(<< "false" >>) THEN Bool(FALSE)
         ELSE Str(<< "throw" >>)
  ELSE IF confirmDefined(runConfigs, runConfigs.t) THEN runConfigs
  ELSE IF confirmDefined(globals, globals.t)
    THEN IF ~isOfType(globals, "boolean") THEN Str(<< "throw" >>) ELSE Bool(FALSE)
  ELSE Bool(FALSE)

\* getConfigs(program, mainDir), lines 84-225: without --config-file
\* runConfigs is {}; checkRunConfigs gives a file without filters the list []
getConfigs(c) ==
  LET rc(o) == IF c.configFile THEN c.runConfigs[o] ELSE Undefined
      chain(o, default) ==
        orChain(<< c.program[o], c.env[o], rc(o), c.globals[o] >>, default)
      requestTimeout == chain("requestTimeout", Num(15000))
      after(n) == IF requestTimeout.t = "number" THEN Num(requestTimeout.v + n)
                  ELSE Str(requestTimeout.v \o << ToString(n) >>)
      deleteImages_ == deleteImagesOf(c.program["deleteImages"], c.env["deleteImages"],
                                      rc("deleteImages"), c.globals["deleteImages"])
      token == chain("token", Str(<< >>))
      filters == IF ~c.configFile THEN Undefined
                 ELSE IF falsy(c.filters) THEN Arr(<< >>) ELSE c.filters
      configs ==
        [ apiServerUrl |-> chain("apiServerUrl", Undefined),
          mediaServerUrl |-> chain("mediaServerUrl", Undefined),
          token |-> token,
          deleteImages |-> deleteImages_,
          maxRequestRetries |-> chain("maxRequestRetries", Num(20)),
          maxDownloadRetries |-> chain("maxDownloadRetries", Num(30)),
          requestTimeout |-> requestTimeout,
          connectionTimeout |-> chain("connectionTimeout", after(3000)),
          downloadTimeout |-> chain("downloadTimeout", after(6000)),
          outputDir |-> chain("outputDir", Str(<< >>)),
          filters |-> filters,
          mode |-> IF filters.t = "array" /\ Len(filters.v) > 0 THEN "filters" ELSE "token" ]
  IN  IF falsy(configs.apiServerUrl) THEN [ threw |-> "API_SERVER_URL is required" ]
      ELSE IF falsy(configs.mediaServerUrl) THEN [ threw |-> "MEDIA_SERVER_URL is required" ]
      ELSE IF deleteImages_ = Str(<< "throw" >>) THEN [ threw |-> "expected boolean" ]
      ELSE IF falsy(filters) /\ falsy(token)
        THEN [ threw |-> "either 'filters' or 'token' should be properly configured" ]
      ELSE IF filters.t = "undefined" THEN [ threw |-> "TypeError" ]
      ELSE [ threw |-> "", configs |-> configs ]

\* one call of getConfigs
GetConfigsCall ==
  /\ cfg.pc = "call"
  /\ LET r == getConfigs(cfg)
     IN  cfg' = IF r.threw # ""
                  THEN [ pc |-> "thrown", call |-> cfg, error |-> r.threw ]
                  ELSE [ pc |-> "returned", call |-> cfg, configs |-> r.configs ]
  /\ UNCHANGED << fa, pc, run, deleteImages, submissions, map, mapCounters, imgDir,
                  cleanedDir, deletedDir, attachmentsMap, m, j, imageNamesToKeep,
                  imageNamesToDelete, counters, results, saveImageCalls,
                  imagesInfo, imc, prev, si, proc, icCall, ws >>

InitConfigs ==
  /\ fa = FaIdle
  /\ pc = "idle"
  /\ run = 1
  /\ deleteImages = FALSE
  /\ submissions = << >>
  /\ map = << >>
  /\ mapCounters = NoMapCounters
  /\ imgDir = << >>
  /\ cleanedDir = << >>
  /\ deletedDir = << >>
  /\ attachmentsMap = << >>
  /\ m = 1
  /\ j = 1
  /\ imageNamesToKeep = << >>
  /\ imageNamesToDelete = << >>
  /\ counters = ZeroCounters
  /\ results = << >>
  /\ saveImageCalls = << >>
  /\ imagesInfo = << >>
  /\ imc = newImageCleaner
  /\ prev = NoReport
  /\ si = SiIdle
  /\ proc = ProcIdle
  /\ icCall = IcIdle
  /\ cfg \in CfgCalls
  /\ ws = WsIdle

SpecConfigs == InitConfigs /\ [][GetConfigsCall]_vars

(***************************************************************************)
(* An ImageCleaner on its own: setters and run() called in any order       *)
(***************************************************************************)
\* the maps given to set map: none, or the map of one record that keeps
\* photo.jpg and names tree.jpg without attachment
CleanerMaps ==
  { << >>,
    buildMap(<< [ _id |-> 1721,
                  _attachments |-> << Attachment(2395), Attachment(2394) >>,
                  images_map |-> << << [key |-> "k", value |-> Photo] >>,
                                    << [key |-> "k", value |-> Tree] >> >> ] >>) }

\* one more call is made on the cleaner; it returns or throws
called(op, threw) ==
  icCall' = [ op |-> op, threw |-> threw, n |-> icCall.n + 1 ]

CleanerFrame ==
  UNCHANGED << fa, pc, run, deleteImages, submissions, map, mapCounters,
               deletedDir, attachmentsMap, m, j, imageNamesToKeep,
               imageNamesToDelete, counters, results, saveImageCalls,
               imagesInfo, prev, si, proc, cfg, ws >>

\* the values a setter is called with: a map; '', an existing directory or a
\* path that does not exist; a boolean
setterValues(op) ==
  IF op = "set map" THEN CleanerMaps
  ELSE IF op = "set path" THEN { "", "dir", "missing" }
  ELSE IF op = "set deleteImages" THEN BOOLEAN
  ELSE { "", "dir" }

\* imc.map = value, imc.path = value, imc.cleanedPath = value,
\* imc.deleteImages = value, imc.runLogPath = value: every setter but set
\* runLogPath throws on a running cleaner, and set path on a missing directory
CleanerSet ==
  /\ icCall.op # "idle" /\ icCall.n < MaxCleanerCalls
  /\ \E op \in { "set map", "set path", "set cleanedPath", "set deleteImages",
                 "set runLogPath" } :
       \E value \in setterValues(op) :
         IF op = "set runLogPath"
           THEN called(op, FALSE) /\ imc' = setRunLogPath(imc, value)
         ELSE IF setterGuard(imc) \/ (op = "set path" /\ value = "missing")
           THEN called(op, TRUE) /\ UNCHANGED imc
         ELSE /\ called(op, FALSE)
              /\ imc' = IF op = "set map" THEN setMap(imc, value)
                        ELSE IF op = "set path" THEN setPath(imc, value)
                        ELSE IF op = "set cleanedPath" THEN setCleanedPath(imc, value)
                        ELSE setDeleteImages(imc, value)
  /\ UNCHANGED << imgDir, cleanedDir >>
  /\ CleanerFrame

\* imc.run(), lines 263-405: it throws before anything is set when the map or
\* a path is not set; it throws with #isRunning left true when getDirEntries
\* throws (the directory cannot be read); else it sweeps the directory, the
\* file operations failing on all the files or on none
CleanerRun ==
  /\ icCall.op # "idle" /\ icCall.n < MaxCleanerCalls
  /\ IF imc.map = << >> \/ ~imc.path \/ ~imc.cleanedPath
       THEN called("run", TRUE) /\ UNCHANGED << imc, imgDir, cleanedDir >>
       ELSE \/ /\ called("run", TRUE)
               /\ imc' = [ resetCounters(imc) EXCEPT !.isRunning = TRUE, !.wasRan = FALSE ]
               /\ UNCHANGED << imgDir, cleanedDir >>
            \/ \E failed \in { {}, DOMAIN imgDir } :
                 LET r == runCleaner(imc, imgDir, cleanedDir, failed)
                 IN  /\ called("run", FALSE)
                     /\ imc' = r.imc
                     /\ imgDir' = r.img
                     /\ cleanedDir' = r.dst
  /\ CleanerFrame

InitCleaner ==
  /\ fa = FaIdle
  /\ pc = "idle"
  /\ run = 1
  /\ deleteImages = FALSE
  /\ submissions = << >>
  /\ map = << >>
  /\ mapCounters = NoMapCounters
  /\ imgDir \in [FileNames \cup StaleNames -> { File(1) }]
  /\ cleanedDir = [n \in FileNames \cup StaleNames |-> << >>]
  /\ deletedDir = << >>
  /\ attachmentsMap = << >>
  /\ m = 1
  /\ j = 1
  /\ imageNamesToKeep = << >>
  /\ imageNamesToDelete = << >>
  /\ counters = ZeroCounters
  /\ results = << >>
  /\ saveImageCalls = << >>
  /\ imagesInfo = << >>
  /\ imc = newImageCleaner
  /\ prev = NoReport
  /\ si = SiIdle
  /\ proc = ProcIdle
  /\ icCall = [ op |-> "new", threw |-> FALSE, n |-> 0 ]
  /\ cfg = CfgIdle
  /\ ws = WsIdle

NextCleaner == CleanerSet \/ CleanerRun

SpecCleaner == InitCleaner /\ [][NextCleaner]_vars

(***************************************************************************)
(* One run over an asset with two records and a stale file                 *)
(***************************************************************************)
\* asset.submissions of two records; the second record fills field A only
Submissions2 ==
  { << [ _id |-> SubmissionIds2[1],
         _attachments |-> << Attachment(2395), Attachment(2394) >>,
         images_map |-> im ],
       [ _id |-> SubmissionIds2[2],
         _attachments |-> << Attachment(2395), Attachment(2394) >>,
         images_map |-> << e, << >> >> ] >> :
      im \in [1..Len(Imgs) -> ImagesMapElements], e \in ImagesMapElements }

EntryKeys2 ==
  { << SubmissionIds2[i], Imgs[jj] >> : i \in 1..Len(SubmissionIds2), jj \in 1..Len(Imgs) }

InitTwo ==
  /\ fa = FaIdle
  /\ pc = "build"
  /\ run = 1
  /\ deleteImages \in BOOLEAN
  /\ submissions \in Submissions2
  /\ map = << >>
  /\ mapCounters = NoMapCounters
  /\ imgDir \in { d \in [FileNames2 \cup StaleNames -> {Absent, File(1)}] :
                    d[buildImageName("1722", Tree)] = Absent }
  /\ cleanedDir = [n \in FileNames2 \cup StaleNames |-> << >>]
  /\ deletedDir = [n \in FileNames2 \cup StaleNames |-> Absent]
  /\ attachmentsMap \in
       { f \in [EntryKeys2 -> InitAttachmentMaps(1721)] :
           /\ f[<< 1721, "A" >>] \in
                { NoAttachmentMap, UnparsableAttachmentMap,
                  AttachmentMap(1721, Photo, 2395, getFileHash(File(1))) }
           /\ \A k \in EntryKeys2 \ { << 1721, "A" >> } : f[k] = NoAttachmentMap }
  /\ m = 1
  /\ j = 1
  /\ imageNamesToKeep = << >>
  /\ imageNamesToDelete = << >>
  /\ counters = ZeroCounters
  /\ results = << >>
  /\ saveImageCalls = << >>
  /\ imagesInfo = << >>
  /\ imc = newImageCleaner
  /\ prev = NoReport
  /\ si = SiIdle
  /\ proc = ProcIdle
  /\ icCall = IcIdle
  /\ cfg = CfgIdle
  /\ ws = WsIdle

SpecTwo == InitTwo /\ [][Next]_vars

(***************************************************************************)
(* Properties of findAttachment (SpecFA)                                   *)
(***************************************************************************)
\* C4: findAttachment returns null iff no attachment with an image mimetype
\* has a filename that ends with the name; otherwise it returns one of those
\* attachments, with the greatest id among them; an attachment whose mimetype
\* does not start with "image" is never returned, whatever its filename
C4_FindAttachmentGreatestId ==
  /\ [][ fa'.attachments = fa.attachments /\ fa'.name = fa.name ]_vars
  /\ [] ( fa.pc = "returned" =>
            LET att == fa.attachments
                EndsWithName(f) ==
                  /\ Len(fa.name) <= Len(f)
                  /\ SubSeq(f, Len(f) - Len(fa.name) + 1, Len(f)) = fa.name
                matches == { i \in 1..Len(att) :
                               /\ Head(att[i].mimetype) = "image"
                               /\ EndsWithName(att[i].filename) }
            IN  /\ (fa.result = Null) <=> (matches = {})
                /\ matches # {} =>
                     \E i \in matches :
                       /\ fa.result = att[i]
                       /\ \A k \in matches : att[k].id <= att[i].id
                /\ fa.result # Null => Head(fa.result.mimetype) = "image" )

\* C4 witness: two image attachments end with the name, the later one in the
\* list has the greater id and is the one returned, past a non-image one
C4_Witness ==
  /\ fa.pc = "returned"
  /\ Len(fa.attachments) = 2
  /\ fa.name = << "a" >>
  /\ fa.attachments[1].filename = << "b", "a" >>
  /\ fa.attachments[2].filename = << "a" >>
  /\ Head(fa.attachments[1].mimetype) = "image"
  /\ Head(fa.attachments[2].mimetype) = "image"
  /\ fa.attachments[1].id < fa.attachments[2].id
  /\ fa.result = fa.attachments[2]

(***************************************************************************)
(* Properties of buildActionMap (Spec)                                     *)
(***************************************************************************)
\* C3: once the map is built, every (record, image field) pair has exactly one
\* entry whose action is delete iff the field has no value, keep iff it has a
\* value and an image attachment of the record matches it, and none iff it
\* has a value and no attachment matches
C3_ActionClassification ==
  pc # "build" =>
    /\ Len(map) = Len(submissions)
    /\ \A s \in 1..Len(submissions) :
         /\ map[s]._id = submissions[s]._id
         /\ Len(map[s].entries) = Len(Imgs)
         /\ \A jj \in 1..Len(Imgs) :
              LET e == map[s].entries[jj]
                  hasValue == submissions[s].images_map[jj] # << >>
                  value == submissions[s].images_map[jj][1].value
                  atts == submissions[s]._attachments
                  matched == \E i \in 1..Len(atts) :
                               /\ Head(atts[i].mimetype) = "image"
                               /\ Len(value) <= Len(atts[i].filename)
                               /\ SubSeq(atts[i].filename,
                                         Len(atts[i].filename) - Len(value) + 1,
                                         Len(atts[i].filename)) = value
              IN  /\ e.key = Imgs[jj]
                  /\ e.action \in {"keep", "delete", "none"}
                  /\ (e.action = "delete") <=> ~hasValue
                  /\ (e.action = "keep") <=> (hasValue /\ matched)
                  /\ (e.action = "none") <=> (hasValue /\ ~matched)

\* C3 witness: a built map with a keep entry and a none entry for one record
\* (photo.jpg is attached, tree.jpg is not)
C3_Witness ==
  /\ pc = "start"
  /\ map[1].entries[1].action = "keep"
  /\ map[1].entries[2].action = "none"
  /\ map[1].entries[2].value = Str(Tree)

C5_DownloadedOutcome ==
  [][ (pc = "update" /\ entry.action = "keep"
         /\ Len(saveImageCalls') = Len(saveImageCalls) + 1
         /\ saveImageCalls'[Len(saveImageCalls')].ok) =>
        LET name == << ToString(map[m]._id), "_" >> \o entry.value.v
            written == attachmentsMap'[<< map[m]._id, entry.key >>]
            last == results'[Len(results')]
        IN  /\ Len(results') = Len(results) + 1
            /\ last.key = entry.key /\ last.status = "ok"
            /\ last.detail = "image downloaded"
            /\ counters'.downloads = counters.downloads + 1
            /\ written.kind = "object"
            /\ written.imageName = Str(name)
            /\ written.originalName = entry.value
            /\ written.attachmentId = Num(entry.attachment.id) ]_vars

C8_KeepDeleteDisjoint ==
  \A n \in FileNames :
    ~ ( /\ \E i \in 1..Len(imageNamesToKeep) : imageNamesToKeep[i] = n
        /\ \E i \in 1..Len(imageNamesToDelete) : imageNamesToDelete[i] = n )

\* C9 (as stated, for a name no earlier entry has claimed): a delete entry with
\* a valid attachment map whose file exists with the stored hash removes the
\* file from the image directory (deleted when deleteImages, else moved to
\* images_deleted) and ends ok, counted as a delete
C9_DeleteRemovesFile ==
  [][ (/\ pc = "update" /\ entry.action = "delete"
       /\ current_attachment_map_o.kind = "object"
       /\ isValidAttachmentMap(current_attachment_map_o)
       /\ imgDir[current_attachment_map_o.imageName.v].kind = "file"
       /\ current_attachment_map_o.imgInfo.hash =
            Arr(<< imgDir[current_attachment_map_o.imageName.v].data >>)
       /\ \A i \in 1..Len(imageNamesToKeep) :
            imageNamesToKeep[i] # current_attachment_map_o.imageName.v
       /\ \A i \in 1..Len(imageNamesToDelete) :
            imageNamesToDelete[i] # current_attachment_map_o.imageName.v) =>
        LET name == current_attachment_map_o.imageName.v
            last == results'[Len(results')]
        IN  /\ imgDir'[name] = Absent
            /\ IF deleteImages THEN deletedDir' = deletedDir
                               ELSE deletedDir'[name] = imgDir[name]
            /\ Len(results') = Len(results) + 1
            /\ last.key = entry.key /\ last.status = "ok"
            /\ counters'.deletes = counters.deletes + 1 ]_vars

\* C10: a delete entry with a valid attachment map whose file exists with a
\* hash that differs from the stored hash ends with status error, and the file
\* is neither deleted nor moved
C10_DeleteHashMismatch ==
  [][ (/\ pc = "update" /\ entry.action = "delete"
       /\ current_attachment_map_o.kind = "object"
       /\ isValidAttachmentMap(current_attachment_map_o)
       /\ imgDir[current_attachment_map_o.imageName.v].kind = "file"
       /\ current_attachment_map_o.imgInfo.hash #
            Arr(<< imgDir[current_attachment_map_o.imageName.v].data >>)) =>
        LET last == results'[Len(results')]
        IN  /\ Len(results') = Len(results) + 1
            /\ last._id = map[m]._id /\ last.key = entry.key
            /\ last.status = "error"
            /\ counters'.errors = counters.errors + 1
            /\ counters'.deletes = counters.deletes
            /\ imgDir' = imgDir
            /\ deletedDir' = deletedDir
            /\ cleanedDir' = cleanedDir ]_vars

\* C10 witness: the first entry was a delete entry that claimed the name of its
\* attachment map; the file is there with a hash that is not the stored one,
\* and the entry ended in error
C10_Witness ==
  /\ Len(results) = 1 /\ results[1].action = "delete"
  /\ results[1].status = "error"
  /\ LET cur == attachmentsMap[<< results[1]._id, results[1].key >>]
     IN  /\ cur.kind = "object" /\ isValidAttachmentMap(cur)
         /\ imageNamesToDelete = << cur.imageName.v >>
         /\ imgDir[cur.imageName.v].kind = "file"
         /\ cur.imgInfo.hash # Arr(<< imgDir[cur.imageName.v].data >>)

(***************************************************************************)
(* Properties of two runs in a row (SpecRerun)                             *)
(***************************************************************************)
\* C1 (as stated, after a first run without failed download, without rejected
\* entry and without failed clean operation): the second run calls saveImage for no entry, deletes or
\* moves no file, and every keep entry ends as 'image up to date'
C1_SecondRunIdempotent ==
  ( /\ run = 2 /\ pc = "done"
    /\ \A i \in 1..Len(prev.saveImageCalls) : prev.saveImageCalls[i].ok
    /\ \A i \in 1..Len(prev.cleaned) : prev.cleaned[i].status = "ok"
    /\ \A i \in 1..Len(prev.results) :
         /\ prev.results[i].action = "keep" =>
              prev.results[i].detail \notin
                { "image name is duplicated", "saveImage fails after retries",
                  "image name exists but is not a regular file" }
         /\ prev.results[i].action = "delete" => prev.results[i].status = "ok" )
  =>
  /\ saveImageCalls = << >>
  /\ imc.cleaned = << >>
  /\ \A i \in 1..Len(results) :
       /\ results[i].action = "keep" => results[i].detail = "image up to date"
       /\ results[i].detail \notin
            { "image deleted", "image moved to images_deleted dir" }

\* C6 (as stated): record 1721, field A = photo.jpg with image attachment 2395,
\* field B without value.  The map is A -> keep (2395), B -> delete.  First run
\* over an empty output directory: when the download of A completes, the file
\* 1721_photo.jpg holds the image, the attachment map of A is written with
\* attachmentId 2395 and the hash of the file, and A ends as downloaded.
\* Second run, after A was downloaded: A ends as 'image up to date' and
\* saveImage is not called.
C6_EndToEnd ==
  [][ /\ ( /\ run = 1 /\ pc = "update" /\ m = 1 /\ j = 1
           /\ submissions =
                << [ _id |-> 1721,
                     _attachments |-> << Attachment(2395), Attachment(2394) >>,
                     images_map |-> << << [key |-> "k", value |-> Photo] >>, << >> >> ] >>
           /\ \A n \in FileNames : imgDir[n] = Absent
           /\ \A k \in EntryKeys : attachmentsMap[k] = NoAttachmentMap
           /\ imc.cleaned = << >> ) =>
           /\ map[1].entries[1].action = "keep"
           /\ map[1].entries[1].attachment.id = 2395
           /\ map[1].entries[2].action = "delete"
           /\ saveImageCalls' = << [ name |-> << "1721", "_" >> \o Photo, ok |-> TRUE ] >> =>
                LET written == attachmentsMap'[<< 1721, "A" >>]
                IN  /\ imgDir'[<< "1721", "_" >> \o Photo] = File(remoteData(2395))
                    /\ written.kind = "object"
                    /\ isValidAttachmentMap(written)
                    /\ written.attachmentId = Num(2395)
                    /\ written.imgInfo.hash = Arr(<< remoteData(2395) >>)
                    /\ Len(results') = 1
                    /\ results'[1].status = "ok"
                    /\ results'[1].detail = "image downloaded"
      /\ ( /\ run = 2 /\ pc = "update" /\ m = 1 /\ j = 1
           /\ Len(prev.results) = 2
           /\ prev.results[1].detail = "image downloaded" ) =>
           /\ saveImageCalls' = << >>
           /\ Len(results') = 1
           /\ results'[1].detail = "image up to date" ]_vars

(***************************************************************************)
(* Properties of the cleaner and of the executor over two records (SpecTwo) *)
(***************************************************************************)
\* C11 (as stated): every file of the swept directory whose name is
\* recordId_value of a none entry is moved to cleanedPath by run(), whatever
\* deleteImages is, unless the move itself fails
C11_NonesQuarantined ==
  [][ pc = "start" =>
        \A n \in DOMAIN imgDir :
          ( /\ imgDir[n].kind = "file"
            /\ \E s \in 1..Len(map), jj \in 1..Len(Imgs) :
                 /\ map[s].entries[jj].action = "none"
                 /\ n = << ToString(map[s]._id), "_" >> \o map[s].entries[jj].value.v
            /\ ~ \E i \in 1..Len(imc'.cleaned) :
                   /\ imc'.cleaned[i].targetFile = n
                   /\ imc'.cleaned[i].status = "error" ) =>
          /\ imgDir'[n] = Absent
          /\ cleanedDir'[n] = Append(cleanedDir[n], imgDir[n].data) ]_vars

\* C12: after run() without failed file operation, every file whose name is
\* neither in the keep set nor in the delete set is gone from the directory
\* (deleted when deleteImages, else added to cleanedPath), and every file whose
\* name is in the keep set or the delete set and not in the none set is still
\* there with the same content
C12_SweepPostcondition ==
  [][ ( /\ pc = "start"
        /\ \A i \in 1..Len(imc'.cleaned) : imc'.cleaned[i].status = "ok" ) =>
        \A n \in DOMAIN imgDir :
          imgDir[n].kind = "file" =>
            LET inKeeps == \E i \in 1..Len(imc'.keeps) : imc'.keeps[i] = n
                inDeletes == \E i \in 1..Len(imc'.deletes) : imc'.deletes[i] = n
                inNones == \E i \in 1..Len(imc'.nones) : imc'.nones[i] = n
            IN  /\ (~inKeeps /\ ~inDeletes) =>
                     /\ imgDir'[n] = Absent
                     /\ IF deleteImages
                          THEN cleanedDir'[n] = cleanedDir[n]
                          ELSE cleanedDir'[n] = Append(cleanedDir[n], imgDir[n].data)
                /\ ((inKeeps \/ inDeletes) /\ ~inNones) =>
                     /\ imgDir'[n] = imgDir[n]
                     /\ cleanedDir'[n] = cleanedDir[n] ]_vars

\* C12 witness: the sweep is over without failure; the stale file was moved to
\* cleanedPath and the file of a keep entry is still in the directory
C12_Witness ==
  /\ pc = "update" /\ m = 1 /\ j = 1 /\ results = << >>
  /\ imc.wasRan /\ ~deleteImages
  /\ \A i \in 1..Len(imc.cleaned) : imc.cleaned[i].status = "ok"
  /\ imgDir[<< "1700", "_" >> \o Photo] = Absent
  /\ cleanedDir[<< "1700", "_" >> \o Photo] = << 1 >>
  /\ \E i \in 1..Len(imc.keeps) : imc.keeps[i] = << "1721", "_" >> \o Photo
  /\ imgDir[<< "1721", "_" >> \o Photo] = File(1)

C17_SaveImageRetries ==
  /\ [] ( LET good(i) ==
                /\ si.attempts[i].download = "ok"
                /\ si.attempts[i].contentLength \notin { Undefined, Num(0) }
                /\ si.attempts[i].end = "finish"
                /\ si.attempts[i].bytesRead = si.attempts[i].contentLength.v
          IN  si.pc \in {"returned", "thrown"} =>
                /\ si.tries <= MaxDownloadRetries
                /\ si.pc = "returned" =>
                     /\ si.tries >= 1
                     /\ good(si.tries)
                     /\ \A i \in 1..(si.tries - 1) : ~good(i)
                     /\ si.file = File(2)
                /\ si.pc = "thrown" =>
                     /\ si.tries = MaxDownloadRetries
                     /\ \A i \in 1..MaxDownloadRetries : ~good(i) )
  /\ [][ ( /\ Len(saveImageCalls') = Len(saveImageCalls) + 1
           /\ ~saveImageCalls'[Len(saveImageCalls')].ok ) =>
           /\ Len(results') = Len(results) + 1
           /\ results'[Len(results')].status = "error"
           /\ results'[Len(results')].detail = "saveImage fails after retries"
           /\ counters'.errors = counters.errors + 1
           /\ pc' \in {"update", "report"} ]_vars

\* C17 witness: saveImage returned on its last attempt, after an attempt that
\* was short of its content-length
C17_Witness ==
  /\ si.pc = "returned"
  /\ si.tries = MaxDownloadRetries
  /\ si.attempts[1].end = "finish"
  /\ si.attempts[1].bytesRead < si.attempts[1].contentLength.v

C19_InvalidRecordAsAbsent ==
  [][ ( /\ pc = "update" /\ entry.action = "keep"
        /\ current_attachment_map_o.kind # "absent"
        /\ ~e_has_attachment_map ) =>
        /\ pc' # "failed"
        /\ counters'.warnings = counters.warnings + 1
        /\ Len(results') = Len(results) + 1
        /\ \/ Len(saveImageCalls') = Len(saveImageCalls) + 1
           \/ results'[Len(results')].detail \in
                { "image name is duplicated",
                  "image name exists but is not a regular file" } ]_vars

\* C20 (as stated): for every download that succeeded in the first run, the
\* second run finds for the entry a valid attachment map whose imageName is
\* the name of the file, whose attachmentId is the id of the entry's
\* attachment, and whose imgInfo.hash is the hash of the downloaded content
C20_RecordRoundTrip ==
  (run = 2 /\ pc = "update") =>
    \A c \in 1..Len(prev.saveImageCalls) :
      prev.saveImageCalls[c].ok =>
        \E jj \in 1..Len(Imgs) :
          LET e == map[1].entries[jj]
              cur == attachmentsMap[<< map[1]._id, e.key >>]
          IN  /\ e.action = "keep"
              /\ prev.saveImageCalls[c].name = << ToString(map[1]._id), "_" >> \o e.value.v
              /\ cur.kind = "object"
              /\ isValidAttachmentMap(cur)
              /\ cur.imageName = Str(prev.saveImageCalls[c].name)
              /\ cur.attachmentId = Num(e.attachment.id)
              /\ cur.imgInfo.hash = getFileHash(File(remoteData(e.attachment.id)))

(***************************************************************************)
(* Frame of the executor: attachment maps, image files, images_info.csv    *)
(***************************************************************************)
\* C21: the attachment map of a (record, field) changes only in the step of
\* a keep entry of that record and field whose saveImage call succeeded, and
\* it is then a record; every other step (a keep that is up to date or ends
\* in error, a delete, a none, the sweep) leaves every attachment map as it
\* was, and no attachment map is ever removed
C21_AttachmentMapFrame ==
  [][ /\ DOMAIN attachmentsMap' = DOMAIN attachmentsMap
      /\ \A k \in DOMAIN attachmentsMap :
           attachmentsMap'[k] # attachmentsMap[k] =>
             /\ pc = "update" /\ entry.action = "keep"
             /\ k = << map[m]._id, entry.key >>
             /\ Len(saveImageCalls') = Len(saveImageCalls) + 1
             /\ saveImageCalls'[Len(saveImageCalls')].ok
             /\ results'[Len(results')].status = "ok"
             /\ attachmentsMap'[k].kind = "object" ]_vars

\* C21 witness: a run is over in which the sweep cleaned a file, a delete
\* entry with a valid attachment map and a keep entry that downloaded were
\* handled, and the attachment map of the delete entry is still there
C21_Witness ==
  /\ pc = "done"
  /\ imc.cleaned # << >>
  /\ results[1].action = "delete"
  /\ attachmentsMap[<< 1721, "A" >>] =
       AttachmentMap(1721, Photo, 2395, getFileHash(File(1)))
  /\ \E c \in 1..Len(saveImageCalls) : saveImageCalls[c].ok

\* C22 (as stated): the step of a none entry, of a delete entry without valid
\* attachment map, and of a delete entry whose attachment map names a file
\* that is not in the image directory, changes no image file and records the
\* entry with status ok
C22_NoOpEntries ==
  [][ ( /\ pc = "update"
        /\ \/ entry.action = "none"
           \/ /\ entry.action = "delete"
              /\ IF e_has_attachment_map
                   THEN ~fileExists(imgDir, current_attachment_map_o.imageName.v)
                   ELSE TRUE ) =>
        /\ imgDir' = imgDir
        /\ deletedDir' = deletedDir
        /\ cleanedDir' = cleanedDir
        /\ Len(results') = Len(results) + 1
        /\ results'[Len(results')].status = "ok" ]_vars

(***************************************************************************)
(* The ImageCleaner on its own (SpecCleaner)                               *)
(***************************************************************************)
\* C23: while the cleaner is running, a call of set map, set path, set
\* cleanedPath or set deleteImages throws and leaves every field of the
\* cleaner as it was; a call of set runLogPath returns and changes runLogPath
\* only
C23_SettersRejectedWhileRunning ==
  [][ (imc.isRunning /\ icCall'.n = icCall.n + 1) =>
        /\ icCall'.op \in { "set map", "set path", "set cleanedPath",
                            "set deleteImages" } =>
             (icCall'.threw /\ imc' = imc)
        /\ icCall'.op = "set runLogPath" =>
             /\ ~icCall'.threw
             /\ \E v \in BOOLEAN : imc' = [imc EXCEPT !.runLogPath = v] ]_vars

\* C23 witness: set map was called on a running cleaner that holds a map and
\* both paths, and threw
C23_Witness ==
  /\ imc.isRunning
  /\ icCall.op = "set map" /\ icCall.threw
  /\ imc.keeps # << >> /\ imc.path /\ imc.cleanedPath

\* C24 (as stated): when run() is called on a cleaner that completed a run and
\* got no new map, path, cleanedPath or deleteImages since, no second sweep is
\* made: the directories and the record of the cleaned files stay as they were
C24_OneShot ==
  [][ ( /\ imc.wasRan /\ ~imc.isRunning
        /\ icCall'.n = icCall.n + 1 /\ icCall'.op = "run" ) =>
        /\ imgDir' = imgDir
        /\ cleanedDir' = cleanedDir
        /\ imc'.cleaned = imc.cleaned
        /\ imc'.totalActionsExecuted = imc.totalActionsExecuted ]_vars

(***************************************************************************)
(* getConfigs (SpecConfigs)                                                *)
(***************************************************************************)
\* C25 (as stated): when getConfigs returns, the option that the sources
\* hold has the value of the first source, in the order command line,
\* environment, run-configs file, globals module, that defines it (the flag
\* --delete-images and the strings 'true' and 'false' of KT_DELETE_IMAGES
\* standing for the booleans)
C25_Precedence ==
  cfg.pc = "returned" =>
    LET o == cfg.call.opt
        given(s) == IF s = "runConfigs" /\ ~cfg.call.configFile THEN Undefined
                    ELSE cfg.call[s][o]
        value(s) == IF o = "deleteImages" /\ s = "env"
                      THEN Bool(given(s) = Str(<< "true" >>))
                    ELSE given(s)
    IN  \A i \in 1..Len(Sources) :
          ( /\ given(Sources[i]) # Undefined
            /\ \A k \in 1..(i - 1) : given(Sources[k]) = Undefined ) =>
          cfg.configs[o] = value(Sources[i])

\* C26 (as stated): getConfigs throws when no source holds a token and the
\* run-configs file holds no filter; else it returns, with mode 'filters'
\* when the file holds a filter and mode 'token' when it does not
C26_FiltersOrToken ==
  (cfg.pc \in {"returned", "thrown"} /\ cfg.call.opt = "token") =>
    LET hasFilters == /\ cfg.call.configFile
                      /\ cfg.call.filters.t = "array"
                      /\ Len(cfg.call.filters.v) > 0
        hasToken == \E i \in 1..Len(Sources) :
                      /\ Sources[i] = "runConfigs" => cfg.call.configFile
                      /\ ~falsy(cfg.call[Sources[i]]["token"])
    IN  IF ~hasFilters /\ ~hasToken THEN cfg.pc = "thrown"
        ELSE /\ cfg.pc = "returned"
             /\ cfg.configs.mode = IF hasFilters THEN "filters" ELSE "token"

C28_DisjointOwnership ==
  LET swept == { imc.cleaned[i].targetFile : i \in 1..Len(imc.cleaned) }
      removed == { attachmentsMap[<< results[n]._id, results[n].key >>].imageName.v :
                     n \in { k \in DOMAIN results :
                              results[k].detail \in { "image deleted",
                                  "image moved to images_deleted dir" } } }
  IN  /\ swept \cap removed = {}
      /\ \A i \in 1..Len(imageNamesToDelete) : imageNamesToDelete[i] \notin swept

(***************************************************************************)
(* buildActionMap as a step of the process (SpecSteps)                     *)
(***************************************************************************)
\* C29: when a record given to buildActionMap holds more than one value for
\* an image field, the step throws: it returns no action map for any asset,
\* the process exits with status 1 and updateImages is never started
C29_BuildAborts ==
  ( /\ proc.pc # "idle"
    /\ proc.build # << >>
    /\ \E a \in 1..Len(proc.build.assets) :
         \E s \in 1..Len(proc.build.assets[a]) :
           \E jj \in 1..Len(Imgs) :
             Len(proc.build.assets[a][s].images_map[jj]) > 1 ) =>
    /\ proc.build.threw
    /\ proc.build.results = << >>
    /\ proc.pc = "exited" /\ proc.exit = 1
    /\ proc.started[Len(proc.started)] = "buildActionMap"
    /\ Len(proc.returned) = Len(proc.started) - 1

\* the second of two assets has a field with two values; the first has none
C29_Witness ==
  /\ proc.pc = "exited"
  /\ proc.build # << >>
  /\ Len(proc.build.assets) = 2
  /\ Len(proc.build.assets[1]) = 1 /\ Len(proc.build.assets[2]) = 1
  /\ \A jj \in 1..Len(Imgs) : Len(proc.build.assets[1][1].images_map[jj]) = 1
  /\ Len(proc.build.assets[2][1].images_map[1]) = 2
  /\ proc.build.threw

\* C30: for every asset that buildActionMap returns, keeps + deletes + nones
\* = totalActions = records x image fields and warnings = the number of none
\* entries of its map; the totals of the step are the sums of the counters of
\* the assets
C30_MapCounters ==
  ( proc.pc # "idle" /\ proc.build # << >> /\ ~proc.build.threw ) =>
    LET rs == proc.build.results
        Counters == { "keeps", "deletes", "nones", "totalActions", "warnings" }
        sum[i \in 0..Len(rs)] ==
          [ c \in Counters |-> IF i = 0 THEN 0 ELSE sum[i - 1][c] + rs[i].mapCounters[c] ]
    IN  /\ \A a \in 1..Len(rs) :
             LET c == rs[a].mapCounters
             IN  /\ c.keeps + c.deletes + c.nones = c.totalActions
                 /\ c.totalActions = Len(rs[a].map) * Len(Imgs)
                 /\ c.warnings =
                      Cardinality({ t \in (1..Len(rs[a].map)) \X (1..Len(Imgs)) :
                                      rs[a].map[t[1]].entries[t[2]].action = "none" })
        /\ \A c \in Counters : proc.build.totals[c] = sum[Len(rs)][c]

\* two assets are returned, one with a keep and a none entry and one with two
\* delete entries
C30_Witness ==
  /\ proc.pc # "idle"
  /\ proc.build # << >>
  /\ ~proc.build.threw
  /\ Len(proc.build.results) = 2
  /\ proc.build.results[1].mapCounters =
       [ keeps |-> 1, deletes |-> 0, nones |-> 1, totalActions |-> 2, warnings |-> 1 ]
  /\ proc.build.results[2].mapCounters.deletes = 2
  /\ proc.build.totals.totalActions = 4

(***************************************************************************)
(* The ImageCleaner inside updateImages (SpecTwo)                          *)
(***************************************************************************)
\* C31 (as stated): after run() has completed, the errors list of the
\* ImageCleaner has one element for each clean operation (delete or move)
\* that failed during the run
C31_CleanerErrors ==
  (imc.wasRan /\ ~imc.isRunning) =>
    Len(imc.errors) =
      Cardinality({ i \in 1..Len(imc.cleaned) : imc.cleaned[i].status = "error" })

(***************************************************************************)
(* The timer of writeStream and the requests in flight (SpecStream)        *)
(***************************************************************************)
\* C32: while writeStream waits, the timer is due downloadTimeout after the
\* start or the last chunk, each chunk re-arming it; an attempt ends by the
\* timeout only after downloadTimeout without a chunk and before the writer
\* finished, its read stream destroyed and the attempt failed; once
\* downloadTimeout has passed without a chunk the timeout is the next step;
\* the time since the start of the stream is not limited
C32_InactivityTimer ==
  /\ [] ( /\ ws.pc = "streaming" =>
               /\ ws.quiet <= DownloadTimeout
               /\ ws.timer = DownloadTimeout - ws.quiet
          /\ (ws.pc # "idle" /\ ws.end = "timeout") =>
               /\ ws.quiet = DownloadTimeout
               /\ ws.streams[Len(ws.streams)] = "closed"
               /\ ws.pc # "returned" )
  /\ [][ (ws.pc = "streaming" /\ ws.quiet = DownloadTimeout) =>
           (ws'.end = "timeout" /\ ws'.pc \in {"attempt", "thrown"}) ]_vars
  /\ [][ (ws.pc = "streaming" /\ ws'.pc = "streaming" /\ ws'.bytesRead # ws.bytesRead) =>
           (ws'.timer = DownloadTimeout /\ ws'.quiet = 0) ]_vars

\* a download that took longer than downloadTimeout, each chunk arriving in
\* time, is completed
C32_Witness ==
  /\ ws.pc = "returned"
  /\ ws.end = "finish"
  /\ ws.bytesRead = 2
  /\ ws.elapsed > DownloadTimeout

\* C33 (as stated): at most one request or read stream is in flight: no
\* request is pending while a read stream of an earlier attempt is neither
\* ended nor destroyed
C33_OneInFlight ==
  ws.pc # "idle" =>
    ws.requests + Cardinality({ i \in DOMAIN ws.streams : ws.streams[i] = "open" }) <= 1

(***************************************************************************)
(* getAssets as the first step of the token mode (SpecSteps)               *)
(***************************************************************************)
\* C34: getAssets asks for the pages in order, each page with its own
\* request cycle of at most maxRequestRetries requests; its status is true
\* exactly when every page was fetched, its results are the filtered items of
\* the pages fetched, in page order, and it stops at the first page whose
\* cycle fails, without asking for the pages after it
C34_GetAssetsPages ==
  (proc.pc # "idle" /\ proc.list # << >>) =>
    LET l == proc.list
        f == proc.fetches
        asked == { p \in 1..Len(l.pages) : p <= Len(f) }
        fetched == { p \in asked : f[p].status }
        items[p \in 0..Len(l.pages)] ==
          IF p = 0 THEN << >>
          ELSE IF p \in fetched
            THEN items[p - 1] \o SelectSeq(l.pages[p], LAMBDA a : a \in l.keep)
          ELSE items[p - 1]
    IN  /\ asked # {}
        /\ \A p \in asked :
             /\ f[p].tries \in 1..MaxRequestRetries
             /\ ~f[p].status => f[p].tries = MaxRequestRetries
             /\ \A q \in 1..(p - 1) : f[q].status
        /\ l.status = (fetched = 1..Len(l.pages))
        /\ l.results = items[Len(l.pages)]
        /\ (~l.status) => /\ \E p \in asked : ~f[p].status
                          /\ proc.pc = "exited" /\ proc.exit = 1
                          /\ proc.started = << "getAssetsList" >>

\* the first page is fetched at the last request of its cycle, the cycle of
\* the second page fails: one result, status false, the process exits
C34_Witness ==
  /\ proc.pc = "exited"
  /\ proc.list # << >>
  /\ Len(proc.list.pages) = 2
  /\ proc.fetches = << [ status |-> TRUE, tries |-> MaxRequestRetries ],
                       [ status |-> FALSE, tries |-> MaxRequestRetries ] >>
  /\ proc.list.pages = << << "a" >>, << "c" >> >>
  /\ proc.list.results = << "a" >>
  /\ ~proc.list.status

(***************************************************************************)
(* C35: records without attachments                                        *)
(***************************************************************************)
\* C35: a record whose _attachments list is empty never enters the builder:
\* the action map built by buildActionMap holds no entry for it
C35_NoEntryWithoutAttachments ==
  \A s \in DOMAIN map :
    Len(submissions[s]._attachments) = 0 => DOMAIN map[s].entries = {}

(***************************************************************************)
(* updateImages over two assets with one ImageCleaner (globals.js 774,     *)
(* 859-867, 1342-1343), the quarantine directory listed name by name       *)
(***************************************************************************)
\* the names renameIfExists tries after the path itself: file_1 .. file_1000
\* in the code, file_1 .. file_MaxTries here
MaxTries == 2

\* the action maps of the two assets: record 1721 keeps photo.jpg and names
\* tree.jpg without attachment; record 1722 keeps photo.jpg
SweepAssets ==
  << buildMap(<< [ _id |-> 1721,
                   _attachments |-> << Attachment(2395), Attachment(2394) >>,
                   images_map |-> << << [key |-> "k", value |-> Photo] >>,
                                     << [key |-> "k", value |-> Tree] >> >> ] >>),
     buildMap(<< [ _id |-> 1722,
                   _attachments |-> << Attachment(2395), Attachment(2394) >>,
                   images_map |-> << << [key |-> "k", value |-> Photo] >>,
                                     << >> >> ] >>) >>

\* the files an asset's image directory can hold: one left by a record that
\* is gone, and the image of record 1721
SweepNames == StaleNames \cup { buildImageName("1721", Photo) }

\* the paths of the quarantine directory: << file, 0 >> is the name itself and
\* << file, k >> the name with the suffix _k
QuarantinePaths == SweepNames \X (0..MaxTries)

\* the mutant returns the path it was given
renameIfExists_same(dst, file) == 0

RECURSIVE renameLoop(_, _, _, _)
\* utils.js lines 143-146: while(fileExists(_path) && (tries <= max_tries))
\* { _path = noExt + '_' + tries + ext; tries++ }; k is the suffix of _path
renameLoop(dst, file, k, tries) ==
  IF fileExists(dst, << file, k >>) /\ tries <= MaxTries
    THEN renameLoop(dst, file, tries, tries + 1)
    ELSE k

\* utils.js renameIfExists, lines 131-151: the suffix of the path returned,
\* or -1 when it throws 'could not rename file' (line 148)
renameIfExists(dst, file) ==
  LET k == renameLoop(dst, file, 0, 1)
  IN  IF fileExists(dst, << file, k >>) THEN -1 ELSE k

\* image-cleaner.js lines 325-353 and 360-388: renameIfExists is called
\* outside the try, so its error leaves run(); mvFile (fs.renameSync) is
\* inside it: it fails on a directory and for the files of failed, and it
\* replaces whatever else is at the new path
moveFile(st, file, failed) ==
  LET k == renameIfExists(st.dst, file)
  IN  IF k = -1 THEN [ st EXCEPT !.threw = TRUE ]
      ELSE IF file \in failed \/ st.dst[<< file, k >>].kind = "dir"
        THEN [ st EXCEPT !.cleaned = Append(@, [targetFile |-> file, status |-> "error",
                                                detail |-> "error", newFilePath |-> k]),
                         !.executed = @ + 1 ]
        ELSE [ st EXCEPT !.img[file] = Absent,
                         !.dst[<< file, k >>] = st.img[file],
                         !.cleaned = Append(@, [targetFile |-> file, status |-> "ok",
                                                detail |-> "file moved",
                                                newFilePath |-> k]),
                         !.executed = @ + 1 ]

RECURSIVE cleanLoop(_, _, _, _, _)
\* image-cleaner.js lines 290-390: the loop of run() over the files, left at
\* the first error thrown outside a try
cleanLoop(c, files, i, st, failed) ==
  IF i > Len(files) \/ st.threw THEN st
  ELSE LET file == files[i]
       IN  IF ~includes(c.keeps, file) /\ ~includes(c.deletes, file)
             THEN IF c.deleteImages
                    THEN cleanLoop(c, files, i + 1, cleanDelete(st, file, failed), failed)
                    ELSE cleanLoop(c, files, i + 1, moveFile(st, file, failed), failed)
           ELSE IF includes(c.nones, file)
             THEN cleanLoop(c, files, i + 1, moveFile(st, file, failed), failed)
           ELSE cleanLoop(c, files, i + 1, st, failed)

\* image-cleaner.js lines 393-394: #isRunning = false and #wasRan = true are
\* reached only when nothing was thrown since line 272
runEnd(c, threw) ==
  IF threw THEN [ c EXCEPT !.isRunning = TRUE, !.wasRan = FALSE ]
  ELSE [ c EXCEPT !.isRunning = FALSE, !.wasRan = TRUE ]

\* run(), lines 263-405, on a cleaner whose map and paths are set: listing
\* is FALSE when getDirEntries throws (line 277)
run_(c, dir, dst, listing, failed) ==
  LET files == IF listing THEN getDirEntries(dir) ELSE << >>
      total == IF Len(files) - (Len(c.keeps) + Len(c.deletes)) > 0
                 THEN Len(files) - (Len(c.keeps) + Len(c.deletes)) ELSE 0
      st == cleanLoop(c, files, 1,
                      [img |-> dir, dst |-> dst, cleaned |-> << >>, executed |-> 0,
                       threw |-> ~listing],
                      failed)
  IN  [ imc |-> [ runEnd(c, st.threw) EXCEPT
                    !.totalActions = IF listing THEN total ELSE 0,
                    !.totalActionsExecuted = st.executed,
                    !.cleaned = st.cleaned, !.errors = << >> ],
        threw |-> st.threw, img |-> st.img, dst |-> st.dst ]

SweepFrame ==
  UNCHANGED << fa, run, submissions, mapCounters, deletedDir, attachmentsMap, j,
               imageNamesToKeep, imageNamesToDelete, counters, results,
               saveImageCalls, imagesInfo, prev, si, proc, cfg, ws >>

\* globals.js lines 862-866: imc.map = asset.map; imc.path = ...;
\* imc.cleanedPath = ...; imc.deleteImages = ...; imc.runLogPath = ...; the
\* first setter throws on a running cleaner and updateImages with it. The
\* image directory is the one of the asset
SweepAssign ==
  /\ pc = "asset"
  /\ IF setterGuard(imc)
       THEN /\ pc' = "thrown"
            /\ icCall' = [ op |-> "set map", threw |-> TRUE, n |-> icCall.n + 1 ]
            /\ UNCHANGED << imc, map, imgDir >>
       ELSE /\ pc' = "run"
            /\ icCall' = [ op |-> "set runLogPath", threw |-> FALSE, n |-> icCall.n + 1 ]
            /\ imc' = setPaths(setMap(imc, SweepAssets[m]), deleteImages)
            /\ map' = SweepAssets[m]
            /\ imgDir' \in [SweepNames -> { Absent, File(1) }]
  /\ UNCHANGED << deleteImages, cleanedDir, m >>
  /\ SweepFrame

\* globals.js line 867: imc.run(), not awaited: the promise it returns is
\* rejected, and nobody handles it, when run() throws
SweepRun ==
  /\ pc = "run"
  /\ \E listing \in BOOLEAN : \E failed \in { {}, SweepNames } :
       LET r == run_(imc, imgDir, cleanedDir, listing, failed)
       IN  /\ imc' = r.imc
           /\ imgDir' = r.img
           /\ cleanedDir' = r.dst
           /\ icCall' = [ op |-> "run", threw |-> r.threw, n |-> icCall.n + 1 ]
  /\ pc' = "entries"
  /\ UNCHANGED << deleteImages, map, m >>
  /\ SweepFrame

\* globals.js lines 870-1340: the executor goes through the entries of the
\* map; it makes no call on the cleaner, and the images of the two assets
\* are up to date
SweepExecute ==
  /\ pc = "entries"
  /\ pc' = "progress"
  /\ UNCHANGED << deleteImages, map, m, imc, imgDir, cleanedDir, icCall >>
  /\ SweepFrame

\* the rejection of run() is unhandled: a runtime that turns it into an
\* uncaught exception ends the process at the next await through the handler
\* of line 1406 (process.exit(1)); another only warns
SweepCrash ==
  /\ pc \in { "entries", "progress" }
  /\ icCall.op = "run" /\ icCall.threw
  /\ pc' = "crashed"
  /\ UNCHANGED << deleteImages, map, m, imc, imgDir, cleanedDir, icCall >>
  /\ SweepFrame

\* globals.js lines 1342-1343: await imc.showProgress(); imc.showReport();
\* showProgress waits one more second as long as #isRunning is true
\* (image-cleaner.js lines 440-449); then the loop goes to the next asset
SweepProgress ==
  /\ pc = "progress"
  /\ IF imc.isRunning
       THEN UNCHANGED << pc, m >>
       ELSE /\ pc' = IF m < Len(SweepAssets) THEN "asset" ELSE "done"
            /\ m' = m + 1
  /\ UNCHANGED << deleteImages, map, imc, imgDir, cleanedDir, icCall >>
  /\ SweepFrame

\* the quarantine directory before the run: each path of the stale name is
\* free, a file or a directory
InitSweep ==
  /\ fa = FaIdle
  /\ pc = "asset"
  /\ run = 1
  /\ deleteImages \in BOOLEAN
  /\ submissions = << >>
  /\ map = << >>
  /\ mapCounters = NoMapCounters
  /\ imgDir = [n \in SweepNames |-> Absent]
  /\ cleanedDir \in { q \in [QuarantinePaths -> { Absent, File(2), Dir }] :
                        \A x \in QuarantinePaths : x[1] \notin StaleNames => q[x] = Absent }
  /\ deletedDir = << >>
  /\ attachmentsMap = << >>
  /\ m = 1
  /\ j = 1
  /\ imageNamesToKeep = << >>
  /\ imageNamesToDelete = << >>
  /\ counters = ZeroCounters
  /\ results = << >>
  /\ saveImageCalls = << >>
  /\ imagesInfo = << >>
  /\ imc = newImageCleaner
  /\ prev = NoReport
  /\ si = SiIdle
  /\ proc = ProcIdle
  /\ icCall = [ op |-> "new", threw |-> FALSE, n |-> 0 ]
  /\ cfg = CfgIdle
  /\ ws = WsIdle

NextSweep ==
  \/ SweepAssign
  \/ SweepRun
  \/ SweepExecute
  \/ SweepCrash
  \/ SweepProgress

\* updateImages is one sequential asynchronous function: the event loop runs
\* its next continuation as long as there is one
SpecSweep == InitSweep /\ [][NextSweep]_vars /\ WF_vars(NextSweep)

(***************************************************************************)
(* C36, C37, C38, C40: the cleaner inside updateImages                     *)
(***************************************************************************)
\* C36: the sweep of an asset has completed (isRunning false, wasRan true)
\* before the executor processes the entries of that asset, and no setter
\* throws 'is running' when the inputs of the next asset are assigned
C36_SweepBeforeExecutor ==
  /\ pc \in { "entries", "progress" } => ~imc.isRunning /\ imc.wasRan
  /\ pc # "thrown"

\* C37: once the map of an asset is assigned, keeps, deletes and nones hold
\* exactly the names recordId_value of the named entries of that map, by
\* action, and no name of the map of an earlier asset
C37_ListsOfCurrentMap ==
  pc \in { "run", "entries", "progress" } =>
    /\ imc.keeps = namesOf(map, "keep")
    /\ imc.deletes = namesOf(map, "delete")
    /\ imc.nones = namesOf(map, "none")

\* C38: a run() that has entered the running state leaves it: isRunning
\* becomes false and wasRan true, so that showProgress returns
C38_RunLeavesRunning ==
  imc.isRunning ~> (~imc.isRunning /\ imc.wasRan)

\* C40: a sweep never changes a path that exists in the quarantine
\* directory: each file it moves goes to a path that did not exist, which is
\* the name with a numeric suffix exactly when the name is taken by a file
C40_NoOverwrite ==
  [][ (pc = "run" /\ pc' = "entries") =>
        /\ \A x \in QuarantinePaths :
             cleanedDir[x].kind # "absent" => cleanedDir'[x] = cleanedDir[x]
        /\ \A i \in 1..Len(imc'.cleaned) :
             imc'.cleaned[i].detail = "file moved" =>
               LET file == imc'.cleaned[i].targetFile
                   k == imc'.cleaned[i].newFilePath
               IN  /\ cleanedDir[<< file, k >>].kind = "absent"
                   /\ cleanedDir'[<< file, k >>] = imgDir[file]
                   /\ imgDir'[file] = Absent
                   /\ k # 0 <=> fileExists(cleanedDir, << file, 0 >>) ]_vars

\* the stale file was moved to its name with the suffix _2, the name and the
\* name with the suffix _1 being files that are still there
C40_Witness ==
  /\ pc = "entries"
  /\ \E file \in StaleNames :
       /\ \E i \in 1..Len(imc.cleaned) :
            /\ imc.cleaned[i].detail = "file moved"
            /\ imc.cleaned[i].targetFile = file
            /\ imc.cleaned[i].newFilePath = 2
       /\ cleanedDir[<< file, 0 >>] = File(2)
       /\ cleanedDir[<< file, 1 >>] = File(2)
       /\ cleanedDir[<< file, 2 >>] = File(1)

(***************************************************************************)
(* C39: the counters of the executor                                       *)
(***************************************************************************)
\* the entries counted so far: downloads + upToDate + deletes + nones and the
\* length of the list of errors
counted(c) == c.downloads + c.upToDate + c.deletes + c.nones + c.errors

\* C39: each entry of the action map is counted in exactly one of downloads,
\* upToDate, deletes, nones and errors: processing an entry adds one to one
\* of them and leaves the others, and after the last entry their sum is the
\* totalActions of the action map
C39_EveryEntryCounted ==
  /\ [](pc \in { "report", "done" } => counted(counters) = mapCounters.totalActions)
  /\ [][ pc = "update" /\ pc' \in { "update", "report" } =>
           /\ counted(counters') = counted(counters) + 1
           /\ \A k \in { "downloads", "upToDate", "deletes", "nones", "errors" } :
                counters'[k] \in { counters[k], counters[k] + 1 } ]_vars

\* the four entries of an asset with two records were counted, some as
\* errors and some as nones
C39_Witness ==
  /\ pc = "done"
  /\ mapCounters.totalActions = 4
  /\ counters.errors >= 1
  /\ counters.nones >= 1
  /\ counters.errors + counters.nones = 4

====
